---- MODULE Spec2Model ----
(***************************************************************************)
(* Model of the aeon-flux WASM runtime core:                               *)
(*   - the route matcher   (packages/runtime-wasm/src/router.rs)           *)
(*   - the tree diff/patch (packages/runtime-wasm/src/hydrate.rs)          *)
(*                                                                         *)
(* A Rust String is a sequence of one-character strings, so that split,    *)
(* trim, starts_with, replace, format! and parse are computed rather than  *)
(* assumed.  "/a/[s]" is written  <<"/","a","/","[","s","]">>.             *)
(***************************************************************************)
EXTENDS Integers, Sequences, FiniteSets, TLC

\* routes: AeonRouter.routes, the registry.  Each entry carries, besides the
\*         code's two fields, `seq`, the number of the add_route call that
\*         created it (history only; no operation reads it).
\* last:   the most recent call on the router and what it returned.
VARIABLES routes, last

\* tree_text:    the serialized tree handed to diff_trees (as old_json) and
\*               to apply_patch (as tree_json)
\* new_text:     the serialized new tree handed to diff_trees (as new_json)
\* change_list:  the serialized change list: what diff_trees returned, or
\*               the patch_json handed to apply_patch
\* patched_text: what apply_patch returned
\* repatched_text: what apply_patch returned when handed patched_text and
\*               the same change list once more
\* hop:          "start", "diffed" after diff_trees, "patched" after
\*               apply_patch, "repatched" after the second apply_patch
VARIABLES tree_text, new_text, change_list, patched_text, repatched_text, hop

\* Stepwise specification (one loop iteration per step):
\* run:          the call in progress: its operation (op), whether it is
\*               "running" or "done" (pc), its arguments, its loop cursor and
\*               locals, the log of what it has visited, and its result;
\*               [pc |-> "idle"] where calls are atomic
VARIABLE run

router_vars == <<routes, last>>

hydrate_vars == <<tree_text, new_text, change_list, patched_text, repatched_text, hop>>

vars ==
    <<routes, last, tree_text, new_text, change_list, patched_text, repatched_text, hop,
      run>>

(***************************************************************************)
(* Bounds                                                                  *)
(***************************************************************************)
MaxRoutes == 3

MaxArrayLen == 2

MaxPatches == 2

(***************************************************************************)
(* String helpers (std::str)                                               *)
(***************************************************************************)
\* str::starts_with
StartsWith(s, p) == Len(s) >= Len(p) /\ SubSeq(s, 1, Len(p)) = p

\* str::ends_with
EndsWith(s, p) == Len(s) >= Len(p) /\ SubSeq(s, Len(s) - Len(p) + 1, Len(s)) = p

\* str::trim_start_matches(c): drop every leading c
RECURSIVE TrimStartMatches(_, _)
TrimStartMatches(s, c) ==
    IF s # <<>> /\ Head(s) = c THEN TrimStartMatches(Tail(s), c) ELSE s

\* str::trim_end_matches(c): drop every trailing c
RECURSIVE TrimEndMatches(_, _)
TrimEndMatches(s, c) ==
    IF s # <<>> /\ s[Len(s)] = c
    THEN TrimEndMatches(SubSeq(s, 1, Len(s) - 1), c)
    ELSE s

\* str::split(c): the pieces between the separators, empty pieces included
RECURSIVE SplitFrom(_, _, _)
SplitFrom(s, c, cur) ==
    IF s = <<>> THEN <<cur>>
    ELSE IF Head(s) = c THEN <<cur>> \o SplitFrom(Tail(s), c, <<>>)
    ELSE SplitFrom(Tail(s), c, Append(cur, Head(s)))

Split(s, c) == SplitFrom(s, c, <<>>)

\* .filter(|s| !s.is_empty())
NonEmptyOnly(ps) == SelectSeq(ps, LAMBDA p : p # <<>>)

\* [&str]::join(sep)
RECURSIVE Join(_, _)
Join(ps, sep) ==
    IF ps = <<>> THEN <<>>
    ELSE IF Len(ps) = 1 THEN ps[1]
    ELSE ps[1] \o sep \o Join(Tail(ps), sep)

\* str::replace(from, to) for a non-empty `from`: every non-overlapping
\* occurrence, left to right; the inserted text is not scanned again.
RECURSIVE Replace(_, _, _)
Replace(s, from, to) ==
    IF s = <<>> THEN <<>>
    ELSE IF StartsWith(s, from)
         THEN to \o Replace(SubSeq(s, Len(from) + 1, Len(s)), from, to)
         ELSE <<Head(s)>> \o Replace(Tail(s), from, to)

(***************************************************************************)
(* Pattern parser                                                          *)
(***************************************************************************)
Static(text) == [kind |-> "Static", name |-> text]
Dynamic(name) == [kind |-> "Dynamic", name |-> name]
CatchAll(name) == [kind |-> "CatchAll", name |-> name]
OptionalCatchAll(name) == [kind |-> "OptionalCatchAll", name |-> name]

is_route_group(segment) ==
    StartsWith(segment, <<"(">>) /\ EndsWith(segment, <<")">>)

ClassifyToken(s) ==
    IF StartsWith(s, <<"[", "[", ".", ".", ".">>) /\ EndsWith(s, <<"]", "]">>)
    THEN OptionalCatchAll(SubSeq(s, 6, Len(s) - 2))
    ELSE IF StartsWith(s, <<"[", ".", ".", ".">>) /\ EndsWith(s, <<"]">>)
    THEN CatchAll(SubSeq(s, 5, Len(s) - 1))
    ELSE IF StartsWith(s, <<"[">>) /\ EndsWith(s, <<"]">>)
    THEN Dynamic(SubSeq(s, 2, Len(s) - 1))
    ELSE Static(s)

\* trim, split on '/', drop empty tokens
PathTokens(path) ==
    NonEmptyOnly(Split(TrimEndMatches(TrimStartMatches(path, "/"), "/"), "/"))

\* parse_pattern without the route-group filter
parse_pattern_keeping_groups(pattern) ==
    LET toks == PathTokens(pattern)
    IN  [i \in 1..Len(toks) |-> ClassifyToken(toks[i])]

parse_pattern(pattern) ==
    LET toks == SelectSeq(PathTokens(pattern), LAMBDA s : ~is_route_group(s))
    IN  [i \in 1..Len(toks) |-> ClassifyToken(toks[i])]

(***************************************************************************)
(* Specificity ranker                                                      *)
(***************************************************************************)
\* SegmentScore with the Static and Dynamic factors exchanged
SegmentScoreDynamicFirst(segment, i) ==
    LET position_weight == 1000 - i
    IN  CASE segment.kind = "Static" -> position_weight * 5
          [] segment.kind = "Dynamic" -> position_weight * 10
          [] segment.kind = "CatchAll" -> 1
          [] segment.kind = "OptionalCatchAll" -> 0

\* the contribution of the segment at 0-based index i
SegmentScore(segment, i) ==
    LET position_weight == 1000 - i
    IN  CASE segment.kind = "Static" -> position_weight * 10
          [] segment.kind = "Dynamic" -> position_weight * 5
          [] segment.kind = "CatchAll" -> 1
          [] segment.kind = "OptionalCatchAll" -> 0

RECURSIVE ScoreFrom(_, _)
ScoreFrom(segments, n) ==
    IF n = 0 THEN 0
    ELSE ScoreFrom(segments, n - 1) + SegmentScore(segments[n], n - 1)

route_specificity(segments) == ScoreFrom(segments, Len(segments))

(***************************************************************************)
(* Segment matcher                                                         *)
(***************************************************************************)
NoParams == [x \in {} |-> <<>>]

\* HashMap::insert
MapInsert(m, k, v) == [x \in DOMAIN m \cup {k} |-> IF x = k THEN v ELSE m[x]]

\* StepSegment with a CatchAll that accepts an exhausted path
StepSegmentCatchAllEmpty(segment, path_segments, path_idx, params) ==
    LET exhausted == path_idx >= Len(path_segments)
        fail == [ok |-> FALSE, path_idx |-> path_idx, params |-> params]
        remaining == SubSeq(path_segments, path_idx + 1, Len(path_segments))
    IN  CASE segment.kind = "Static" ->
               IF exhausted THEN fail
               ELSE IF path_segments[path_idx + 1] # segment.name THEN fail
               ELSE [ok |-> TRUE, path_idx |-> path_idx + 1, params |-> params]
          [] segment.kind = "Dynamic" ->
               IF exhausted THEN fail
               ELSE [ok |-> TRUE, path_idx |-> path_idx + 1,
                     params |-> MapInsert(params, segment.name,
                                          path_segments[path_idx + 1])]
          [] segment.kind \in {"CatchAll", "OptionalCatchAll"} ->
               [ok |-> TRUE, path_idx |-> Len(path_segments),
                params |-> MapInsert(params, segment.name,
                                     Join(remaining, <<"/">>))]

\* StepSegment with catch-alls that take one token, as a Dynamic does
StepSegmentCatchAllOneToken(segment, path_segments, path_idx, params) ==
    LET exhausted == path_idx >= Len(path_segments)
        fail == [ok |-> FALSE, path_idx |-> path_idx, params |-> params]
    IN  CASE segment.kind = "Static" ->
               IF exhausted THEN fail
               ELSE IF path_segments[path_idx + 1] # segment.name THEN fail
               ELSE [ok |-> TRUE, path_idx |-> path_idx + 1, params |-> params]
          [] segment.kind \in {"Dynamic", "CatchAll"} ->
               IF exhausted THEN fail
               ELSE [ok |-> TRUE, path_idx |-> path_idx + 1,
                     params |-> MapInsert(params, segment.name,
                                          path_segments[path_idx + 1])]
          [] segment.kind = "OptionalCatchAll" ->
               IF ~exhausted
               THEN [ok |-> TRUE, path_idx |-> path_idx + 1,
                     params |-> MapInsert(params, segment.name,
                                          path_segments[path_idx + 1])]
               ELSE [ok |-> TRUE, path_idx |-> path_idx, params |-> params]

\* StepSegment whose Static, Dynamic and CatchAll arms let an exhausted path pass
StepSegmentLenientAtEnd(segment, path_segments, path_idx, params) ==
    LET exhausted == path_idx >= Len(path_segments)
        fail == [ok |-> FALSE, path_idx |-> path_idx, params |-> params]
        pass == [ok |-> TRUE, path_idx |-> path_idx, params |-> params]
        remaining == SubSeq(path_segments, path_idx + 1, Len(path_segments))
    IN  CASE segment.kind = "Static" ->
               IF exhausted THEN pass
               ELSE IF path_segments[path_idx + 1] # segment.name THEN fail
               ELSE [ok |-> TRUE, path_idx |-> path_idx + 1, params |-> params]
          [] segment.kind = "Dynamic" ->
               IF exhausted THEN pass
               ELSE [ok |-> TRUE, path_idx |-> path_idx + 1,
                     params |-> MapInsert(params, segment.name,
                                          path_segments[path_idx + 1])]
          [] segment.kind = "CatchAll" ->
               IF exhausted THEN pass
               ELSE [ok |-> TRUE, path_idx |-> Len(path_segments),
                     params |-> MapInsert(params, segment.name,
                                          Join(remaining, <<"/">>))]
          [] segment.kind = "OptionalCatchAll" ->
               IF ~exhausted
               THEN [ok |-> TRUE, path_idx |-> Len(path_segments),
                     params |-> MapInsert(params, segment.name,
                                          Join(remaining, <<"/">>))]
               ELSE pass

\* char::to_ascii_lowercase on the letters of the model
ToLower(c) == CASE c = "A" -> "a" [] c = "B" -> "b" [] OTHER -> c

\* StepSegment whose Static arm compares without regard to case
StepSegmentIgnoringCase(segment, path_segments, path_idx, params) ==
    LET exhausted == path_idx >= Len(path_segments)
        fail == [ok |-> FALSE, path_idx |-> path_idx, params |-> params]
        remaining == SubSeq(path_segments, path_idx + 1, Len(path_segments))
        lower(s) == [k \in 1..Len(s) |-> ToLower(s[k])]
    IN  CASE segment.kind = "Static" ->
               IF exhausted THEN fail
               ELSE IF lower(path_segments[path_idx + 1]) # lower(segment.name)
               THEN fail
               ELSE [ok |-> TRUE, path_idx |-> path_idx + 1, params |-> params]
          [] segment.kind = "Dynamic" ->
               IF exhausted THEN fail
               ELSE [ok |-> TRUE, path_idx |-> path_idx + 1,
                     params |-> MapInsert(params, segment.name,
                                          path_segments[path_idx + 1])]
          [] segment.kind = "CatchAll" ->
               IF exhausted THEN fail
               ELSE [ok |-> TRUE, path_idx |-> Len(path_segments),
                     params |-> MapInsert(params, segment.name,
                                          Join(remaining, <<"/">>))]
          [] segment.kind = "OptionalCatchAll" ->
               IF ~exhausted
               THEN [ok |-> TRUE, path_idx |-> Len(path_segments),
                     params |-> MapInsert(params, segment.name,
                                          Join(remaining, <<"/">>))]
               ELSE [ok |-> TRUE, path_idx |-> path_idx, params |-> params]

\* One arm of the `match segment` in match_segments: ok = FALSE is
\* `return None`, else the cursor and the bindings after the segment.
StepSegment(segment, path_segments, path_idx, params) ==
    LET exhausted == path_idx >= Len(path_segments)
        fail == [ok |-> FALSE, path_idx |-> path_idx, params |-> params]
        remaining == SubSeq(path_segments, path_idx + 1, Len(path_segments))
    IN  CASE segment.kind = "Static" ->
               IF exhausted THEN fail
               ELSE IF path_segments[path_idx + 1] # segment.name THEN fail
               ELSE [ok |-> TRUE, path_idx |-> path_idx + 1, params |-> params]
          [] segment.kind = "Dynamic" ->
               IF exhausted THEN fail
               ELSE [ok |-> TRUE, path_idx |-> path_idx + 1,
                     params |-> MapInsert(params, segment.name,
                                          path_segments[path_idx + 1])]
          [] segment.kind = "CatchAll" ->
               IF exhausted THEN fail
               ELSE [ok |-> TRUE, path_idx |-> Len(path_segments),
                     params |-> MapInsert(params, segment.name,
                                          Join(remaining, <<"/">>))]
          [] segment.kind = "OptionalCatchAll" ->
               IF ~exhausted
               THEN [ok |-> TRUE, path_idx |-> Len(path_segments),
                     params |-> MapInsert(params, segment.name,
                                          Join(remaining, <<"/">>))]
               ELSE [ok |-> TRUE, path_idx |-> path_idx, params |-> params]

\* The loop of match_segments over route segments n, n+1, ...: it stops at
\* the first `return None`.
RECURSIVE WalkSegments(_, _, _, _, _)
WalkSegments(route_segments, path_segments, n, path_idx, params) ==
    IF n > Len(route_segments)
    THEN [ok |-> TRUE, path_idx |-> path_idx, params |-> params]
    ELSE LET st == StepSegment(route_segments[n], path_segments, path_idx, params)
         IN  IF ~st.ok THEN st
             ELSE WalkSegments(route_segments, path_segments, n + 1,
                               st.path_idx, st.params)

NoMatch == [some |-> FALSE]

\* match_segments without the final cursor test
match_segments_any_cursor(route_segments, path_segments) ==
    LET w == WalkSegments(route_segments, path_segments, 1, 0, NoParams)
    IN  IF w.ok THEN [some |-> TRUE, params |-> w.params] ELSE NoMatch

match_segments(route_segments, path_segments) ==
    LET w == WalkSegments(route_segments, path_segments, 1, 0, NoParams)
    IN  IF w.ok /\ w.path_idx = Len(path_segments)
        THEN [some |-> TRUE, params |-> w.params]
        ELSE NoMatch

(***************************************************************************)
(* Session-id resolver                                                     *)
(***************************************************************************)
\* The orders in which a HashMap over the key set S may be iterated
RECURSIVE Orders(_)
Orders(S) ==
    IF S = {} THEN {<<>>}
    ELSE UNION {{<<k>> \o o : o \in Orders(S \ {k})} : k \in S}

\* resolve_session_id with the (key, value) pairs visited in `order`
RECURSIVE ResolveIn(_, _, _)
ResolveIn(result, params, order) ==
    IF order = <<>> THEN result
    ELSE ResolveIn(Replace(result, <<"$">> \o Head(order), params[Head(order)]),
                   params, Tail(order))

resolve_session_id(template, params, order) == ResolveIn(template, params, order)

(***************************************************************************)
(* Route registry and route matcher                                        *)
(***************************************************************************)
\* slice::sort_by(|a, b| route_specificity(b).cmp(route_specificity(a))):
\* a stable sort, descending by score.  InsertByScore puts r behind every
\* entry whose score is at least its own.
\* InsertByScore that puts r in front of the entries of equal score
RECURSIVE InsertBeforeTies(_, _)
InsertBeforeTies(sorted, r) ==
    IF sorted = <<>> THEN <<r>>
    ELSE IF route_specificity(Head(sorted).segments) > route_specificity(r.segments)
         THEN <<Head(sorted)>> \o InsertBeforeTies(Tail(sorted), r)
         ELSE <<r>> \o sorted

RECURSIVE InsertByScore(_, _)
InsertByScore(sorted, r) ==
    IF sorted = <<>> THEN <<r>>
    ELSE IF route_specificity(Head(sorted).segments) >= route_specificity(r.segments)
         THEN <<Head(sorted)>> \o InsertByScore(Tail(sorted), r)
         ELSE <<r>> \o sorted

RECURSIVE SortBySpecificity(_)
SortBySpecificity(rs) ==
    IF rs = <<>> THEN <<>>
    ELSE InsertByScore(SortBySpecificity(SubSeq(rs, 1, Len(rs) - 1)), rs[Len(rs)])

\* add_route that pushes and does not sort
add_route_unsorted(rs, definition) ==
    Append(rs, [segments |-> parse_pattern(definition.pattern),
                definition |-> definition,
                seq |-> Len(rs) + 1])

\* add_route that replaces a registered route of the same pattern
add_route_merging(rs, definition) ==
    LET kept == SelectSeq(rs, LAMBDA r : r.definition.pattern # definition.pattern)
    IN  SortBySpecificity(Append(kept, [segments |-> parse_pattern(definition.pattern),
                                        definition |-> definition,
                                        seq |-> Len(rs) + 1]))

\* The registry after add_route(definition)
add_route(rs, definition) ==
    SortBySpecificity(Append(rs, [segments |-> parse_pattern(definition.pattern),
                                  definition |-> definition,
                                  seq |-> Len(rs) + 1]))

\* The index of the first registry entry whose segments match, 0 if none
RECURSIVE FirstMatch(_, _, _)
FirstMatch(rs, path_segments, n) ==
    IF n > Len(rs) THEN 0
    ELSE IF match_segments(rs[n].segments, path_segments).some THEN n
    ELSE FirstMatch(rs, path_segments, n + 1)

\* The values match_route(path) can return: one for each order in which the
\* parameter HashMap can be iterated by resolve_session_id.
match_route(rs, path) ==
    LET path_segments == PathTokens(path)
        n == FirstMatch(rs, path_segments, 1)
    IN  IF n = 0 THEN {NoMatch}
        ELSE LET params == match_segments(rs[n].segments, path_segments).params
             IN  {[some |-> TRUE,
                   route |-> rs[n].definition,
                   params |-> params,
                   resolved_session_id |->
                       resolve_session_id(rs[n].definition.session_id, params, order)]
                  : order \in Orders(DOMAIN params)}

get_routes_json(rs) == [i \in 1..Len(rs) |-> rs[i].definition.pattern]

(***************************************************************************)
(* Tree values (serde_json::Value) and their JSON text                     *)
(***************************************************************************)
\* A Value is the pair <<variant, content>>: the content is <<>> for null,
\* a BOOLEAN, an integer, a string, a sequence of Values, or a function
\* from keys (strings) to Values.
Null == <<"null", <<>>>>
Bool(b) == <<"bool", b>>
Number(n) == <<"number", n>>
String(s) == <<"string", s>>
Array(a) == <<"array", a>>
Object(m) == <<"object", m>>

EmptyMap == [k \in {} |-> Null]

\* Option<T>
None == [some |-> FALSE]
Some(x) == [some |-> TRUE, val |-> x]

Digits == <<"0", "1", "2", "3", "4", "5", "6", "7", "8", "9">>

IsDigit(c) == \E d \in 1..10 : Digits[d] = c

DigitValue(c) == (CHOOSE d \in 1..10 : Digits[d] = c) - 1

\* format!("{}", i) for an unsigned integer
RECURSIVE ToDecimal(_)
ToDecimal(n) ==
    IF n < 10 THEN <<Digits[n + 1]>>
    ELSE ToDecimal(n \div 10) \o <<Digits[(n % 10) + 1]>>

RECURSIVE DigitsValue(_, _)
DigitsValue(s, acc) ==
    IF s = <<>> THEN acc ELSE DigitsValue(Tail(s), acc * 10 + DigitValue(Head(s)))

\* str::parse::<usize>(): an optional '+', then one or more decimal digits;
\* -1 stands for Err.  Texts of more than 9 digits, which the code reads up
\* to usize::MAX, are beyond the integers of the model and read as Err;
\* no input holds one.
ParseUsize(s) ==
    LET ds == IF s # <<>> /\ Head(s) = "+" THEN Tail(s) ELSE s
    IN  IF ds = <<>> \/ \E i \in 1..Len(ds) : ~IsDigit(ds[i]) THEN -1
        ELSE IF Len(ds) > 9 THEN -1
        ELSE DigitsValue(ds, 0)

\* The byte of a character, for the key order of serde_json's BTreeMap
CharRank(c) ==
    CASE c = "\"" -> 34
      [] c = "+" -> 43
      [] c = "." -> 46
      [] IsDigit(c) -> 48 + DigitValue(c)
      [] c = "\\" -> 92
      [] c = "a" -> 97
      [] c = "b" -> 98
      [] c = "c" -> 99
      [] c = "x" -> 120
      [] c = "y" -> 121

\* str::cmp: lexicographic by bytes
RECURSIVE StrLess(_, _)
StrLess(a, b) ==
    IF b = <<>> THEN FALSE
    ELSE IF a = <<>> THEN TRUE
    ELSE IF Head(a) # Head(b) THEN CharRank(Head(a)) < CharRank(Head(b))
    ELSE StrLess(Tail(a), Tail(b))

\* The keys of a serde_json Map in iteration order: ascending, the Map
\* being a BTreeMap unless serde_json is built with preserve_order
RECURSIVE SortedKeys(_)
SortedKeys(K) ==
    IF K = {} THEN <<>>
    ELSE LET least == CHOOSE k \in K : \A o \in K \ {k} : StrLess(k, o)
         IN  <<least>> \o SortedKeys(K \ {least})

\* A JSON string literal: quotes and backslashes escaped
RECURSIVE EscapeChars(_)
EscapeChars(s) ==
    IF s = <<>> THEN <<>>
    ELSE (IF Head(s) \in {"\"", "\\"} THEN <<"\\", Head(s)>> ELSE <<Head(s)>>)
         \o EscapeChars(Tail(s))

Quote(s) == <<"\"">> \o EscapeChars(s) \o <<"\"">>

\* Value::to_string / serde_json::to_string: compact JSON, object members in
\* key order
RECURSIVE ToJson(_)
RECURSIVE ElemsToJson(_)
RECURSIVE MembersToJson(_, _)
ElemsToJson(a) ==
    IF a = <<>> THEN <<>>
    ELSE IF Len(a) = 1 THEN ToJson(a[1])
    ELSE ToJson(a[1]) \o <<",">> \o ElemsToJson(Tail(a))

MembersToJson(m, keys) ==
    IF keys = <<>> THEN <<>>
    ELSE Quote(keys[1]) \o <<":">> \o ToJson(m[keys[1]])
         \o (IF Len(keys) = 1 THEN <<>> ELSE <<",">> \o MembersToJson(m, Tail(keys)))

ToJson(val) ==
    CASE val[1] = "null" -> <<"n", "u", "l", "l">>
      [] val[1] = "bool" -> IF val[2] THEN <<"t", "r", "u", "e">>
                           ELSE <<"f", "a", "l", "s", "e">>
      [] val[1] = "number" -> IF val[2] < 0 THEN <<"-">> \o ToDecimal(-val[2])
                             ELSE ToDecimal(val[2])
      [] val[1] = "string" -> Quote(val[2])
      [] val[1] = "array" -> <<"[">> \o ElemsToJson(val[2]) \o <<"]">>
      [] val[1] = "object" ->
            <<"{">> \o MembersToJson(val[2], SortedKeys(DOMAIN val[2])) \o <<"}">>

\* serde_json::from_str::<Value> on text without whitespace, fractions,
\* exponents and escapes other than \" and \\.  Each parser takes the text
\* and a position and yields [ok, val, pos]: the value read and the
\* position behind it.
ParseFail == [ok |-> FALSE, val |-> Null, pos |-> 0]

At(s, i) == IF i <= Len(s) THEN s[i] ELSE "EOF"

HasAt(s, i, word) ==
    i + Len(word) - 1 <= Len(s) /\ SubSeq(s, i, i + Len(word) - 1) = word

\* the position behind the run of digits that starts at i
RECURSIVE DigitsEnd(_, _)
DigitsEnd(s, i) == IF IsDigit(At(s, i)) THEN DigitsEnd(s, i + 1) ELSE i

ParseNumber(s, i) ==
    LET neg == At(s, i) = "-"
        from == IF neg THEN i + 1 ELSE i
        to == DigitsEnd(s, from)
        n == DigitsValue(SubSeq(s, from, to - 1), 0)
    IN  IF to = from THEN ParseFail
        ELSE IF s[from] = "0" /\ to > from + 1 THEN ParseFail
        ELSE IF At(s, to) \in {".", "e", "E"} THEN ParseFail
        ELSE [ok |-> TRUE, val |-> Number(IF neg THEN -n ELSE n), pos |-> to]

\* the characters of a string literal whose opening quote is before i;
\* val is the unescaped text, pos the position behind the closing quote
RECURSIVE ParseChars(_, _, _)
ParseChars(s, i, acc) ==
    IF i > Len(s) THEN ParseFail
    ELSE IF s[i] = "\"" THEN [ok |-> TRUE, val |-> acc, pos |-> i + 1]
    ELSE IF s[i] = "\\"
         THEN IF At(s, i + 1) \in {"\"", "\\"}
              THEN ParseChars(s, i + 2, Append(acc, s[i + 1]))
              ELSE ParseFail
    ELSE ParseChars(s, i + 1, Append(acc, s[i]))

RECURSIVE ParseValue(_, _)
RECURSIVE ParseElems(_, _, _)
RECURSIVE ParseMembers(_, _, _)
\* array elements from i on, behind '[' or ','
ParseElems(s, i, acc) ==
    LET e == ParseValue(s, i)
    IN  IF ~e.ok THEN ParseFail
        ELSE IF At(s, e.pos) = "," THEN ParseElems(s, e.pos + 1, Append(acc, e.val))
        ELSE IF At(s, e.pos) = "]"
             THEN [ok |-> TRUE, val |-> Array(Append(acc, e.val)), pos |-> e.pos + 1]
        ELSE ParseFail

\* object members from i on, behind '{' or ','; a repeated key keeps the
\* last value
ParseMembers(s, i, acc) ==
    IF At(s, i) # "\"" THEN ParseFail
    ELSE LET k == ParseChars(s, i + 1, <<>>)
         IN  IF ~k.ok \/ At(s, k.pos) # ":" THEN ParseFail
             ELSE LET e == ParseValue(s, k.pos + 1)
                      m == [x \in DOMAIN acc \cup {k.val} |->
                               IF x = k.val THEN e.val ELSE acc[x]]
                  IN  IF ~e.ok THEN ParseFail
                      ELSE IF At(s, e.pos) = "," THEN ParseMembers(s, e.pos + 1, m)
                      ELSE IF At(s, e.pos) = "}"
                           THEN [ok |-> TRUE, val |-> Object(m), pos |-> e.pos + 1]
                      ELSE ParseFail

ParseValue(s, i) ==
    LET c == At(s, i)
    IN  CASE HasAt(s, i, <<"n", "u", "l", "l">>) ->
                [ok |-> TRUE, val |-> Null, pos |-> i + 4]
          [] HasAt(s, i, <<"t", "r", "u", "e">>) ->
                [ok |-> TRUE, val |-> Bool(TRUE), pos |-> i + 4]
          [] HasAt(s, i, <<"f", "a", "l", "s", "e">>) ->
                [ok |-> TRUE, val |-> Bool(FALSE), pos |-> i + 5]
          [] c = "-" \/ IsDigit(c) -> ParseNumber(s, i)
          [] c = "\"" ->
                LET r == ParseChars(s, i + 1, <<>>)
                IN  IF r.ok THEN [ok |-> TRUE, val |-> String(r.val), pos |-> r.pos]
                    ELSE ParseFail
          [] c = "[" ->
                IF At(s, i + 1) = "]"
                THEN [ok |-> TRUE, val |-> Array(<<>>), pos |-> i + 2]
                ELSE ParseElems(s, i + 1, <<>>)
          [] c = "{" ->
                IF At(s, i + 1) = "}"
                THEN [ok |-> TRUE, val |-> Object(EmptyMap), pos |-> i + 2]
                ELSE ParseMembers(s, i + 1, EmptyMap)
          [] OTHER -> ParseFail

\* serde_json::from_str::<Value>: Err (ok = FALSE) unless the whole text is
\* one value
FromJson(s) ==
    LET r == ParseValue(s, 1)
    IN  IF r.ok /\ r.pos = Len(s) + 1 THEN [ok |-> TRUE, val |-> r.val]
        ELSE [ok |-> FALSE, val |-> Null]

\* from_str(..).unwrap_or with an empty object as the default
FromJsonOrEmptyObject(s) ==
    IF FromJson(s).ok THEN FromJson(s).val ELSE Object(EmptyMap)

\* serde_json::from_str(..).unwrap_or(Value::Null)
FromJsonOrNull(s) == FromJson(s).val

(***************************************************************************)
(* Diff engine                                                             *)
(***************************************************************************)
\* The change types, as the Strings they are
Add == <<"a", "d", "d">>
Remove == <<"r", "e", "m", "o", "v", "e">>
Update == <<"u", "p", "d", "a", "t", "e">>

TreeDiff(path, change_type, old_value, new_value) ==
    [path |-> path, change_type |-> change_type,
     old_value |-> old_value, new_value |-> new_value]

\* if path.is_empty() { key } else { format!("{}.{}", path, key) }
ChildPath(path, key) == IF path = <<>> THEN key ELSE path \o <<".">> \o key

\* UnequalPair that does not test old != new
UnequalPairAlways(old, new, path) ==
    <<TreeDiff(path, Update, Some(ToJson(old)), Some(ToJson(new)))>>

\* The `_` arm of diff_values: any other pair, recorded when unequal
UnequalPair(old, new, path) ==
    IF old # new
    THEN <<TreeDiff(path, Update, Some(ToJson(old)), Some(ToJson(new)))>>
    ELSE <<>>

\* The records diff_values(old, new, path, diffs) pushes, in order
RECURSIVE diff_values(_, _, _)
RECURSIVE DiffRemovedKeys(_, _, _, _)
RECURSIVE DiffNewKeys(_, _, _, _)
RECURSIVE DiffItemsToNewLen(_, _, _, _)
RECURSIVE DiffItems(_, _, _, _)
\* DiffRemovedKeys that records no removed key
DiffRemovedKeysNone(old_map, new_map, keys, path) == <<>>

\* `for key in old_map.keys()`: the keys missing from new_map
DiffRemovedKeys(old_map, new_map, keys, path) ==
    IF keys = <<>> THEN <<>>
    ELSE (IF Head(keys) \notin DOMAIN new_map
          THEN <<TreeDiff(ChildPath(path, Head(keys)), Remove,
                          Some(ToJson(old_map[Head(keys)])), None)>>
          ELSE <<>>)
         \o DiffRemovedKeys(old_map, new_map, Tail(keys), path)

\* `for (key, new_val) in new_map`: recurse into shared keys, add the others
DiffNewKeys(old_map, new_map, keys, path) ==
    IF keys = <<>> THEN <<>>
    ELSE (IF Head(keys) \in DOMAIN old_map
          THEN diff_values(old_map[Head(keys)], new_map[Head(keys)],
                           ChildPath(path, Head(keys)))
          ELSE <<TreeDiff(ChildPath(path, Head(keys)), Add,
                          None, Some(ToJson(new_map[Head(keys)])))>>)
         \o DiffNewKeys(old_map, new_map, Tail(keys), path)

\* DiffItems that stops at the length of the new array
DiffItemsToNewLen(old_arr, new_arr, i, path) ==
    LET old_item == IF i < Len(old_arr) THEN old_arr[i + 1] ELSE Null
        new_item == IF i < Len(new_arr) THEN new_arr[i + 1] ELSE Null
    IN  IF i >= Len(new_arr) THEN <<>>
        ELSE diff_values(old_item, new_item, ChildPath(path, ToDecimal(i)))
             \o DiffItemsToNewLen(old_arr, new_arr, i + 1, path)

\* `for i in 0..max_len`, from index i on, a missing item read as Null
DiffItems(old_arr, new_arr, i, path) ==
    LET max_len == IF Len(old_arr) >= Len(new_arr) THEN Len(old_arr) ELSE Len(new_arr)
        old_item == IF i < Len(old_arr) THEN old_arr[i + 1] ELSE Null
        new_item == IF i < Len(new_arr) THEN new_arr[i + 1] ELSE Null
    IN  IF i >= max_len THEN <<>>
        ELSE diff_values(old_item, new_item, ChildPath(path, ToDecimal(i)))
             \o DiffItems(old_arr, new_arr, i + 1, path)

\* diff_values that descends into an object set against Null
diff_values_descending(old, new, path) ==
    CASE old[1] = "null" /\ new[1] = "null" -> <<>>
      [] old[1] = "null" /\ new[1] = "object" ->
            DiffNewKeys(EmptyMap, new[2], SortedKeys(DOMAIN new[2]), path)
      [] old[1] = "null" /\ new[1] \notin {"null", "object"} ->
            <<TreeDiff(path, Add, None, Some(ToJson(new)))>>
      [] old[1] = "object" /\ new[1] = "null" ->
            DiffRemovedKeys(old[2], EmptyMap, SortedKeys(DOMAIN old[2]), path)
      [] old[1] \notin {"null", "object"} /\ new[1] = "null" ->
            <<TreeDiff(path, Remove, Some(ToJson(old)), None)>>
      [] old[1] = "object" /\ new[1] = "object" ->
            DiffRemovedKeys(old[2], new[2], SortedKeys(DOMAIN old[2]), path)
            \o DiffNewKeys(old[2], new[2], SortedKeys(DOMAIN new[2]), path)
      [] old[1] = "array" /\ new[1] = "array" ->
            DiffItems(old[2], new[2], 0, path)
      [] OTHER -> UnequalPair(old, new, path)

diff_values(old, new, path) ==
    CASE old[1] = "null" /\ new[1] = "null" -> <<>>
      [] old[1] = "null" /\ new[1] # "null" ->
            <<TreeDiff(path, Add, None, Some(ToJson(new)))>>
      [] old[1] # "null" /\ new[1] = "null" ->
            <<TreeDiff(path, Remove, Some(ToJson(old)), None)>>
      [] old[1] = "object" /\ new[1] = "object" ->
            DiffRemovedKeys(old[2], new[2], SortedKeys(DOMAIN old[2]), path)
            \o DiffNewKeys(old[2], new[2], SortedKeys(DOMAIN new[2]), path)
      [] old[1] = "array" /\ new[1] = "array" ->
            DiffItems(old[2], new[2], 0, path)
      [] OTHER -> UnequalPair(old, new, path)

compute_diff(old_json, new_json, path) ==
    diff_values(FromJsonOrNull(old_json), FromJsonOrNull(new_json), path)

\* OptionToJson that writes an absent value as the empty string
OptionToJsonEmpty(o) == IF o.some THEN Quote(o.val) ELSE <<"\"", "\"">>

\* serde_json::to_string(&Vec<TreeDiff>): an array of objects with the
\* fields in the order of their declaration, an Option<String> as a string
\* or null
OptionToJson(o) == IF o.some THEN Quote(o.val) ELSE <<"n", "u", "l", "l">>

TreeDiffToJson(d) ==
    <<"{", "\"", "p", "a", "t", "h", "\"", ":">> \o Quote(d.path)
    \o <<",", "\"", "c", "h", "a", "n", "g", "e", "_", "t", "y", "p", "e", "\"", ":">>
    \o Quote(d.change_type)
    \o <<",", "\"", "o", "l", "d", "_", "v", "a", "l", "u", "e", "\"", ":">>
    \o OptionToJson(d.old_value)
    \o <<",", "\"", "n", "e", "w", "_", "v", "a", "l", "u", "e", "\"", ":">>
    \o OptionToJson(d.new_value)
    \o <<"}">>

RECURSIVE TreeDiffsToJson(_)
TreeDiffsToJson(ds) ==
    IF ds = <<>> THEN <<>>
    ELSE TreeDiffToJson(ds[1])
         \o (IF Len(ds) = 1 THEN <<>> ELSE <<",">> \o TreeDiffsToJson(Tail(ds)))

DiffsToJson(ds) == <<"[">> \o TreeDiffsToJson(ds) \o <<"]">>

\* diff_trees: the serialized change list
diff_trees(old_json, new_json) == DiffsToJson(compute_diff(old_json, new_json, <<>>))

\* Deserialize for TreeDiff from a parsed object: path and change_type must
\* be strings, old_value and new_value strings, null or absent
PathField == <<"p", "a", "t", "h">>
ChangeTypeField == <<"c", "h", "a", "n", "g", "e", "_", "t", "y", "p", "e">>
OldValueField == <<"o", "l", "d", "_", "v", "a", "l", "u", "e">>
NewValueField == <<"n", "e", "w", "_", "v", "a", "l", "u", "e">>

IsStringField(m, f) == f \in DOMAIN m /\ m[f][1] = "string"

IsOptionField(m, f) == f \in DOMAIN m => m[f][1] \in {"string", "null"}

OptionField(m, f) ==
    IF f \in DOMAIN m /\ m[f][1] = "string" THEN Some(m[f][2]) ELSE None

IsTreeDiff(val) ==
    /\ val[1] = "object"
    /\ IsStringField(val[2], PathField)
    /\ IsStringField(val[2], ChangeTypeField)
    /\ IsOptionField(val[2], OldValueField)
    /\ IsOptionField(val[2], NewValueField)

TreeDiffFromValue(val) ==
    TreeDiff(val[2][PathField][2], val[2][ChangeTypeField][2],
             OptionField(val[2], OldValueField), OptionField(val[2], NewValueField))

\* serde_json::from_str::<Vec<TreeDiff>>(patch_json).unwrap_or_default():
\* the empty list unless the text is an array of TreeDiff objects
PatchesFromJson(patch_json) ==
    LET parsed == FromJson(patch_json)
    IN  IF /\ parsed.ok
           /\ parsed.val[1] = "array"
           /\ \A i \in 1..Len(parsed.val[2]) : IsTreeDiff(parsed.val[2][i])
        THEN [i \in 1..Len(parsed.val[2]) |-> TreeDiffFromValue(parsed.val[2][i])]
        ELSE <<>>

(***************************************************************************)
(* Patch applier                                                           *)
(***************************************************************************)
\* Vec::remove(idx)
RemoveAt(a, idx) == SubSeq(a, 1, idx) \o SubSeq(a, idx + 2, Len(a))

\* Map::remove(key)
MapRemove(m, key) == [x \in DOMAIN m \ {key} |-> m[x]]

\* ApplyAtTarget that ignores an Add or Update behind the end of an array
ApplyAtTargetNoAppend(current, part, patch) ==
    LET idx == ParseUsize(part)
    IN  CASE patch.change_type \in {Add, Update} ->
               IF ~patch.new_value.some THEN current
               ELSE LET parsed == FromJson(patch.new_value.val)
                    IN  IF ~parsed.ok THEN current
                        ELSE IF idx >= 0
                        THEN IF current[1] = "array" /\ idx < Len(current[2])
                             THEN Array([current[2] EXCEPT ![idx + 1] = parsed.val])
                             ELSE current
                        ELSE IF current[1] = "object"
                        THEN Object(MapInsert(current[2], part, parsed.val))
                        ELSE current
          [] patch.change_type = Remove ->
               IF idx >= 0
               THEN IF current[1] = "array" /\ idx < Len(current[2])
                    THEN Array(RemoveAt(current[2], idx))
                    ELSE current
               ELSE IF current[1] = "object"
               THEN Object(MapRemove(current[2], part))
               ELSE current
          [] OTHER -> current

\* ApplyAtTarget whose remove on an object stores null under the key
ApplyAtTargetRemoveAsNull(current, part, patch) ==
    LET idx == ParseUsize(part)
    IN  CASE patch.change_type \in {Add, Update} ->
               IF ~patch.new_value.some THEN current
               ELSE LET parsed == FromJson(patch.new_value.val)
                    IN  IF ~parsed.ok THEN current
                        ELSE IF idx >= 0
                        THEN IF current[1] = "array"
                             THEN IF idx < Len(current[2])
                                  THEN Array([current[2] EXCEPT ![idx + 1] = parsed.val])
                                  ELSE Array(Append(current[2], parsed.val))
                             ELSE current
                        ELSE IF current[1] = "object"
                        THEN Object(MapInsert(current[2], part, parsed.val))
                        ELSE current
          [] patch.change_type = Remove ->
               IF idx >= 0
               THEN IF current[1] = "array" /\ idx < Len(current[2])
                    THEN Array(RemoveAt(current[2], idx))
                    ELSE current
               ELSE IF current[1] = "object"
               THEN Object(MapInsert(current[2], part, Null))
               ELSE current
          [] OTHER -> current

\* The final path segment (i == path_parts.len() - 1): `current` after the
\* change
ApplyAtTarget(current, part, patch) ==
    LET idx == ParseUsize(part)
    IN  CASE patch.change_type \in {Add, Update} ->
               IF ~patch.new_value.some THEN current
               ELSE LET parsed == FromJson(patch.new_value.val)
                    IN  IF ~parsed.ok THEN current
                        ELSE IF idx >= 0
                        THEN IF current[1] = "array"
                             THEN IF idx < Len(current[2])
                                  THEN Array([current[2] EXCEPT ![idx + 1] = parsed.val])
                                  ELSE Array(Append(current[2], parsed.val))
                             ELSE current
                        ELSE IF current[1] = "object"
                        THEN Object(MapInsert(current[2], part, parsed.val))
                        ELSE current
          [] patch.change_type = Remove ->
               IF idx >= 0
               THEN IF current[1] = "array" /\ idx < Len(current[2])
                    THEN Array(RemoveAt(current[2], idx))
                    ELSE current
               ELSE IF current[1] = "object"
               THEN Object(MapRemove(current[2], part))
               ELSE current
          [] OTHER -> current

\* ApplyAlong that clears the node at which navigation fails
RECURSIVE ApplyAlongClearing(_, _, _, _)
ApplyAlongClearing(current, path_parts, n, patch) ==
    LET part == path_parts[n]
        idx == ParseUsize(part)
    IN  IF n = Len(path_parts) THEN ApplyAtTarget(current, part, patch)
        ELSE IF idx >= 0
        THEN IF current[1] = "array" /\ idx < Len(current[2])
             THEN Array([current[2] EXCEPT
                           ![idx + 1] = ApplyAlongClearing(current[2][idx + 1],
                                                           path_parts, n + 1, patch)])
             ELSE Null
        ELSE IF current[1] = "object" /\ part \in DOMAIN current[2]
        THEN Object([current[2] EXCEPT
                       ![part] = ApplyAlongClearing(current[2][part], path_parts,
                                                    n + 1, patch)])
        ELSE Null

\* The navigation loop from path part number n on: `current` after the
\* record; a `return` leaves it as it is.
RECURSIVE ApplyAlong(_, _, _, _)
ApplyAlong(current, path_parts, n, patch) ==
    LET part == path_parts[n]
        idx == ParseUsize(part)
    IN  IF n = Len(path_parts) THEN ApplyAtTarget(current, part, patch)
        ELSE IF idx >= 0
        THEN IF current[1] = "array" /\ idx < Len(current[2])
             THEN Array([current[2] EXCEPT
                           ![idx + 1] = ApplyAlong(current[2][idx + 1], path_parts,
                                                   n + 1, patch)])
             ELSE current
        ELSE IF current[1] = "object" /\ part \in DOMAIN current[2]
        THEN Object([current[2] EXCEPT
                       ![part] = ApplyAlong(current[2][part], path_parts, n + 1, patch)])
        ELSE current

\* apply_single_patch whose root-level remove leaves the tree as it is
apply_single_patch_keeping_root(tree, patch) ==
    LET path_parts == NonEmptyOnly(Split(patch.path, "."))
    IN  IF path_parts = <<>>
        THEN CASE patch.change_type \in {Add, Update} ->
                    IF patch.new_value.some /\ FromJson(patch.new_value.val).ok
                    THEN FromJson(patch.new_value.val).val
                    ELSE tree
               [] OTHER -> tree
        ELSE ApplyAlong(tree, path_parts, 1, patch)

\* The tree after apply_single_patch(tree, patch)
apply_single_patch(tree, patch) ==
    LET path_parts == NonEmptyOnly(Split(patch.path, "."))
    IN  IF path_parts = <<>>
        THEN CASE patch.change_type \in {Add, Update} ->
                    IF patch.new_value.some /\ FromJson(patch.new_value.val).ok
                    THEN FromJson(patch.new_value.val).val
                    ELSE tree
               [] patch.change_type = Remove -> Null
               [] OTHER -> tree
        ELSE ApplyAlong(tree, path_parts, 1, patch)

\* `for patch in patches { apply_single_patch(&mut tree, &patch) }`
RECURSIVE ApplyAll(_, _)
ApplyAll(tree, patches) ==
    IF patches = <<>> THEN tree
    ELSE ApplyAll(apply_single_patch(tree, Head(patches)), Tail(patches))

apply_patch(tree_json, patch_json) ==
    ToJson(ApplyAll(FromJsonOrNull(tree_json), PatchesFromJson(patch_json)))

(***************************************************************************)
(* Inputs                                                                  *)
(***************************************************************************)
RouteDefinition(pattern, session_id, component_id) ==
    [pattern |-> pattern, session_id |-> session_id, component_id |-> component_id]

RouteDefs ==
    { RouteDefinition(<<"/", "a">>, <<"a">>, "A"),
      RouteDefinition(<<"/", "(", "g", ")", "/", "a", "/", "(", "[", "s", "]", ")", "/",
                        "[", "s", "]", "/">>,
                      <<"a", "-", "$", "s">>, "AS"),
      RouteDefinition(<<"/", "a", "/", "b">>, <<"a", "b">>, "AB"),
      RouteDefinition(<<"/", "[", "s", "]", "/", "b">>, <<"$", "s", "-", "b">>, "SB"),
      RouteDefinition(<<"/", "a", "/", "[", "[", ".", ".", ".", "r", "]", "]">>,
                      <<"a", "-", "$", "r">>, "AO"),
      RouteDefinition(<<"/", "a", "/", "[", ".", ".", ".", "r", "]">>,
                      <<"r", "-", "$", "r">>, "AR"),
      RouteDefinition(<<"/", "[", "s", "]", "/", "[", "s", "t", "]">>,
                      <<"$", "s", "t">>, "SST"),
      RouteDefinition(<<"/", "[", "s", "]", "/", "[", "[", ".", ".", ".", "s", "t", "]", "]">>,
                      <<"$", "s", "t">>, "SO"),
      RouteDefinition(<<"/">>, <<"r", "o", "o", "t">>, "ROOT") }

\* Route definitions whose pattern has a catch-all before its last segment,
\* next to an ordinary one
TrailingDefs ==
    { RouteDefinition(<<"/", "a">>, <<"a">>, "A"),
      RouteDefinition(<<"/", "a", "/", "[", ".", ".", ".", "r", "]", "/", "b">>,
                      <<"a", "-", "$", "r">>, "ARB"),
      RouteDefinition(<<"/", "[", ".", ".", ".", "r", "]", "/", "[", "s", "]">>,
                      <<"$", "r">>, "RS"),
      RouteDefinition(<<"/", "[", ".", ".", ".", "r", "]", "/", "[", ".", ".", ".", "s", "]">>,
                      <<"$", "r">>, "RR"),
      RouteDefinition(<<"/", "[", ".", ".", ".", "r", "]", "/",
                        "[", "[", ".", ".", ".", "s", "]", "]">>,
                      <<"$", "r">>, "RO"),
      RouteDefinition(<<"/", "[", ".", ".", ".", "r", "]", "/",
                        "[", "[", ".", ".", ".", "s", "]", "]", "/", "b">>,
                      <<"$", "r">>, "ROB") }

Paths ==
    { <<"/">>,
      <<"/", "a">>,
      <<"/", "A">>,
      <<"/", "a", "/", "b">>,
      <<"/", "/", "b", "/", "a", "/">>,
      <<"/", "a", "/", "b", "/", "a">>,
      <<"/", "$", "s", "t", "/", "b">> }

\* Trees diffed against each other: scalars, arrays of scalars up to
\* MaxArrayLen, objects over the keys "a" and "0" (a key that reads as an
\* index), one level of nesting, and keys that are empty or hold a '.'.
Scalars == {Null, Number(1), Number(2), String(<<"x">>)}

ArrayItems == {Null, Number(1), Number(2)}

FlatArrays == UNION {{Array(a) : a \in [1..n -> ArrayItems]} : n \in 0..MaxArrayLen}

FlatObjects ==
    UNION {{Object(m) : m \in [K -> Scalars]} : K \in SUBSET {<<"a">>, <<"0">>}}

Trees ==
    Scalars \cup FlatArrays \cup FlatObjects
    \cup {Object([k \in {<<"a">>} |-> x]) : x \in FlatArrays \cup FlatObjects}
    \cup { Bool(TRUE),
           Array(<<Object([k \in {<<"a">>} |-> Number(1)])>>),
           Array(<<Array(<<Number(1)>>), Number(2)>>),
           Object([k \in {<<"a", ".", "b">>} |-> Number(1)]),
           Object([k \in {<<>>} |-> Number(1)]),
           Object([k \in {<<>>} |-> Object([j \in {<<"b">>} |-> Number(1)])]),
           Object([k \in {<<>>} |-> Object([j \in {<<"b">>} |-> Number(2)])]),
           Object([k \in {<<"a">>, <<"b">>} |-> String(<<"a", "\"", "\\">>)]) }

\* Texts that are no JSON value
MalformedTexts == { <<"{", "\"", "a", "\"">>, <<>> }

TreeTexts == {ToJson(t) : t \in Trees} \cup MalformedTexts

\* Trees and change lists handed to apply_patch directly
PatchTrees ==
    { Null, Number(1),
      Object(EmptyMap),
      Object([k \in {<<"a">>} |-> Number(1)]),
      Object([k \in {<<"a">>, <<"b">>} |-> Number(1)]),
      Object([k \in {<<"a">>} |-> Array(<<Number(1), Number(2)>>)]),
      Object([k \in {<<"a">>} |-> Object([j \in {<<"b">>} |-> Number(1)])]),
      Object([k \in {<<"0">>} |-> Object([j \in {<<"a">>} |-> Number(1)])]),
      Array(<<>>),
      Array(<<Number(1), Number(2)>>),
      Array(<<Object([k \in {<<"a">>} |-> Number(1)])>>) }

PatchRecords ==
    { TreeDiff(<<"a">>, Add, None, Some(<<"2">>)),
      TreeDiff(<<"a">>, Remove, Some(<<"1">>), None),
      TreeDiff(<<"0">>, Update, Some(<<"1">>), Some(<<"[", "1", "]">>)),
      TreeDiff(<<"0">>, Remove, Some(<<"1">>), None),
      TreeDiff(<<>>, Update, Some(<<"1">>), Some(<<"{", "}">>)),
      TreeDiff(<<>>, Remove, Some(<<"1">>), None),
      TreeDiff(<<"a", ".", "1">>, Update, Some(<<"2">>), Some(<<"1">>)),
      TreeDiff(<<"a", ".", ".", "b">>, Remove, Some(<<"1">>), None),
      TreeDiff(<<"0", ".", "a">>, Add, None, Some(<<"2">>)),
      TreeDiff(<<"a">>, Add, None, Some(<<"{", "2">>)),
      TreeDiff(<<"a">>, <<"m", "o", "v", "e">>, None, Some(<<"2">>)) }

PatchLists == UNION {[1..n -> PatchRecords] : n \in 0..MaxPatches}

\* a text that is no JSON, and JSON that is no list of TreeDiff
MalformedLists ==
    { <<"[", "{", "]">>,
      <<"{", "}">>,
      <<"[", "{", "\"", "p", "a", "t", "h", "\"", ":", "1", "}", "]">> }

\* the serialized lists and the malformed ones
PatchTexts == {DiffsToJson(list) : list \in PatchLists} \cup MalformedLists

\* Texts at the boundary: malformed ones and a few well-formed ones, for a
\* tree and for a change list
BoundaryTexts ==
    MalformedTexts
    \cup {ToJson(t) : t \in {Null, Number(1),
                             Object([k \in {<<"a">>} |-> Number(1)]),
                             Array(<<Number(1), Number(2)>>)}}

BoundaryLists ==
    MalformedLists \cup {<<>>, <<"[", "]">>}
    \cup {DiffsToJson(<<d>>) : d \in PatchRecords}

(***************************************************************************)
(* The router as a state machine                                           *)
(***************************************************************************)
RouterIdle ==
    /\ routes = <<>>
    /\ last = [op |-> "new"]

HydrateIdle ==
    /\ tree_text = <<>>
    /\ new_text = <<>>
    /\ change_list = <<>>
    /\ patched_text = <<>>
    /\ repatched_text = <<>>
    /\ hop = "start"

\* no call is followed step by step
NoRun == run = [pc |-> "idle"]

Init == RouterIdle /\ HydrateIdle /\ NoRun

AddRoute ==
    /\ Len(routes) < MaxRoutes
    /\ \E definition \in RouteDefs :
          /\ routes' = add_route(routes, definition)
          /\ last' = [op |-> "add_route", definition |-> definition]
    /\ UNCHANGED <<hydrate_vars, run>>

MatchRoute ==
    /\ \E path \in Paths :
         \E ret \in match_route(routes, path) :
           last' = [op |-> "match_route", path |-> path, ret |-> ret]
    /\ UNCHANGED <<routes, hydrate_vars, run>>

HasRoute ==
    /\ \E path \in Paths :
         \E ret \in match_route(routes, path) :
           last' = [op |-> "has_route", path |-> path, ret |-> ret.some]
    /\ UNCHANGED <<routes, hydrate_vars, run>>

GetRoutesJson ==
    /\ last' = [op |-> "get_routes_json", ret |-> get_routes_json(routes)]
    /\ UNCHANGED <<routes, hydrate_vars, run>>

Next == AddRoute \/ MatchRoute \/ HasRoute \/ GetRoutesJson

Spec == Init /\ [][Next]_vars

\* add_route called with a pattern that may hold a catch-all before its end
AddTrailing ==
    /\ Len(routes) < MaxRoutes
    /\ \E definition \in TrailingDefs :
          /\ routes' = add_route(routes, definition)
          /\ last' = [op |-> "add_route", definition |-> definition]
    /\ UNCHANGED <<hydrate_vars, run>>

TrailingNext == AddTrailing \/ MatchRoute \/ HasRoute \/ GetRoutesJson

SpecTrailing == Init /\ [][TrailingNext]_vars

(***************************************************************************)
(* Diff and patch as state machines                                        *)
(***************************************************************************)
\* SpecDiff: two trees are diffed and the change list is applied to the old
\* one.
DiffInit ==
    /\ RouterIdle
    /\ NoRun
    /\ tree_text \in TreeTexts
    /\ new_text \in TreeTexts
    /\ change_list = <<>>
    /\ patched_text = <<>>
    /\ repatched_text = <<>>
    /\ hop = "start"

DiffTrees ==
    /\ hop = "start"
    /\ change_list' = diff_trees(tree_text, new_text)
    /\ hop' = "diffed"
    /\ UNCHANGED <<tree_text, new_text, patched_text, repatched_text, router_vars, run>>

ApplyDiff ==
    /\ hop = "diffed"
    /\ patched_text' = apply_patch(tree_text, change_list)
    /\ hop' = "patched"
    /\ UNCHANGED <<tree_text, new_text, change_list, repatched_text, router_vars, run>>

\* the change list applied once more, to what the first application returned
ApplyAgain ==
    /\ hop = "patched"
    /\ repatched_text' = apply_patch(patched_text, change_list)
    /\ hop' = "repatched"
    /\ UNCHANGED <<tree_text, new_text, change_list, patched_text, router_vars, run>>

DiffNext == DiffTrees \/ ApplyDiff \/ ApplyAgain

SpecDiff == DiffInit /\ [][DiffNext]_vars

\* SpecPatch: apply_patch on a tree and a change list of the caller
PatchInit ==
    /\ RouterIdle
    /\ NoRun
    /\ tree_text \in {ToJson(t) : t \in PatchTrees} \cup MalformedTexts
    /\ new_text = <<>>
    /\ change_list = <<>>
    /\ patched_text = <<>>
    /\ repatched_text = <<>>
    /\ hop = "start"

ApplyPatch ==
    /\ hop = "start"
    /\ \E patch_json \in PatchTexts :
          /\ change_list' = patch_json
          /\ patched_text' = apply_patch(tree_text, patch_json)
    /\ hop' = "patched"
    /\ UNCHANGED <<tree_text, new_text, repatched_text, router_vars, run>>

PatchNext == ApplyPatch

SpecPatch == PatchInit /\ [][PatchNext]_vars

\* SpecBoundary: diff_trees and apply_patch called with texts of which any
\* may be malformed
BoundaryInit ==
    /\ RouterIdle
    /\ NoRun
    /\ tree_text \in BoundaryTexts
    /\ new_text \in BoundaryTexts
    /\ change_list = <<>>
    /\ patched_text = <<>>
    /\ repatched_text = <<>>
    /\ hop = "start"

BoundaryPatch ==
    /\ hop = "start"
    /\ \E patch_json \in BoundaryLists :
          /\ change_list' = patch_json
          /\ patched_text' = apply_patch(tree_text, patch_json)
    /\ hop' = "patched"
    /\ UNCHANGED <<tree_text, new_text, repatched_text, router_vars, run>>

BoundaryNext == DiffTrees \/ BoundaryPatch

SpecBoundary == BoundaryInit /\ [][BoundaryNext]_vars

(***************************************************************************)
(* The loops of match_route, diff_values and apply_patch, step by step     *)
(***************************************************************************)
\* The inputs of the calls followed step by step: some of the route
\* definitions, the arrays and the objects below a key with two nested
\* arrays and the malformed texts, and the lists of remove and update records
StepDefs == {d \in RouteDefs : d.component_id \in {"A", "AB", "SB", "AR", "ROOT"}}

StepTexts ==
    {ToJson(t) : t \in FlatArrays
                       \cup {Object([k \in {<<"a">>} |-> x]) : x \in FlatObjects}
                       \cup {Array(<<Object([k \in {<<"a">>} |-> Number(1)])>>),
                             Array(<<Array(<<Number(1)>>), Number(2)>>)}}
    \cup MalformedTexts

StepLists ==
    {DiffsToJson(list) :
        list \in UNION {[1..n -> {r \in PatchRecords : r.change_type \in {Remove, Update}}]
                          : n \in 0..MaxPatches}}
    \cup MalformedLists

\* The registries n calls of add_route can build
RECURSIVE RegistriesOf(_)
RegistriesOf(n) ==
    IF n = 0 THEN {<<>>}
    ELSE LET shorter == RegistriesOf(n - 1)
         IN  shorter \cup {add_route(rs, definition) :
                              rs \in {r \in shorter : Len(r) = n - 1},
                              definition \in StepDefs}

\* The place of a key that is missing from old_map (`old_map.get(key)` is None)
Absent == <<"absent", 0>>

\* One pending call diff_values(old, new, path)
Frame(old, new, path) == [old |-> old, new |-> new, path |-> path]

\* `for (key, new_val) in new_map`: the calls and pushes to come, in order
RECURSIVE KeyFrames(_, _, _, _)
KeyFrames(old_map, new_map, keys, path) ==
    IF keys = <<>> THEN <<>>
    ELSE <<Frame(IF Head(keys) \in DOMAIN old_map THEN old_map[Head(keys)] ELSE Absent,
                 new_map[Head(keys)],
                 ChildPath(path, Head(keys)))>>
         \o KeyFrames(old_map, new_map, Tail(keys), path)

\* `for i in 0..max_len`: the calls to come, a missing item read as Null
ItemFrames(old_arr, new_arr, path) ==
    LET max_len == IF Len(old_arr) >= Len(new_arr) THEN Len(old_arr) ELSE Len(new_arr)
    IN  [i \in 1..max_len |->
            Frame(IF i <= Len(old_arr) THEN old_arr[i] ELSE Null,
                  IF i <= Len(new_arr) THEN new_arr[i] ELSE Null,
                  ChildPath(path, ToDecimal(i - 1)))]

\* match_route is called: the path is cut into tokens, no route examined yet
MatchCall(path) ==
    [op |-> "match_route", pc |-> "running", path |-> path,
     path_segments |-> PathTokens(path),
     idx |-> 0, examined |-> <<>>, ret |-> NoMatch]

\* diff_trees is called: both texts parsed, the root call of diff_values pending
DiffCall(old_json, new_json) ==
    [op |-> "diff_trees", pc |-> "running", old_json |-> old_json, new_json |-> new_json,
     stack |-> <<Frame(FromJsonOrNull(old_json), FromJsonOrNull(new_json), <<>>)>>,
     diffs |-> <<>>, ret |-> <<>>]

\* apply_patch is called: tree and change list parsed, no record applied yet
PatchCall(tree_json, patch_json) ==
    [op |-> "apply_patch", pc |-> "running", tree_json |-> tree_json,
     patch_json |-> patch_json,
     tree |-> FromJsonOrNull(tree_json), patches |-> PatchesFromJson(patch_json),
     idx |-> 0, applied |-> <<>>, ret |-> <<>>]

StepsInit ==
    /\ last = [op |-> "new"]
    /\ HydrateIdle
    /\ \/ /\ routes \in RegistriesOf(MaxRoutes)
          /\ \E path \in Paths : run = MatchCall(path)
       \/ /\ routes = <<>>
          /\ \E old_json \in StepTexts, new_json \in StepTexts :
                run = DiffCall(old_json, new_json)
       \/ /\ routes = <<>>
          /\ \E tree_json \in {ToJson(t) : t \in PatchTrees} \cup MalformedTexts,
                patch_json \in StepLists :
                run = PatchCall(tree_json, patch_json)

\* One iteration of `for parsed in &self.routes`, or the `None` after it
MatchStep ==
    /\ run.op = "match_route"
    /\ run.pc = "running"
    /\ IF run.idx < Len(routes)
       THEN LET n == run.idx + 1
                m == match_segments(routes[n].segments, run.path_segments)
            IN  IF m.some
                THEN \E order \in Orders(DOMAIN m.params) :
                        run' = [run EXCEPT
                                  !.pc = "done",
                                  !.idx = n,
                                  !.examined = Append(@, n),
                                  !.ret = [some |-> TRUE,
                                           route |-> routes[n].definition,
                                           params |-> m.params,
                                           resolved_session_id |->
                                               resolve_session_id(
                                                   routes[n].definition.session_id,
                                                   m.params, order)]]
                ELSE run' = [run EXCEPT !.idx = n, !.examined = Append(@, n)]
       ELSE run' = [run EXCEPT !.pc = "done"]
    /\ UNCHANGED <<router_vars, hydrate_vars>>

\* The records one call of diff_values pushes itself
FrameRecords(f) ==
    CASE f.old = Absent -> <<TreeDiff(f.path, Add, None, Some(ToJson(f.new)))>>
      [] f.old # Absent /\ f.old[1] = "null" /\ f.new[1] = "null" -> <<>>
      [] f.old # Absent /\ f.old[1] = "null" /\ f.new[1] # "null" ->
            <<TreeDiff(f.path, Add, None, Some(ToJson(f.new)))>>
      [] f.old # Absent /\ f.old[1] # "null" /\ f.new[1] = "null" ->
            <<TreeDiff(f.path, Remove, Some(ToJson(f.old)), None)>>
      [] f.old # Absent /\ f.old[1] = "object" /\ f.new[1] = "object" ->
            DiffRemovedKeys(f.old[2], f.new[2], SortedKeys(DOMAIN f.old[2]), f.path)
      [] f.old # Absent /\ f.old[1] = "array" /\ f.new[1] = "array" -> <<>>
      [] OTHER -> UnequalPair(f.old, f.new, f.path)

\* The calls one call of diff_values makes, in order
FrameCalls(f) ==
    IF f.old = Absent THEN <<>>
    ELSE IF f.old[1] = "object" /\ f.new[1] = "object"
    THEN KeyFrames(f.old[2], f.new[2], SortedKeys(DOMAIN f.new[2]), f.path)
    ELSE IF f.old[1] = "array" /\ f.new[1] = "array"
    THEN ItemFrames(f.old[2], f.new[2], f.path)
    ELSE <<>>

\* One call of diff_values up to its first inner call, or the serialization
\* of the records once no call is pending
DiffStep ==
    /\ run.op = "diff_trees"
    /\ run.pc = "running"
    /\ IF run.stack # <<>>
       THEN run' = [run EXCEPT
                      !.stack = FrameCalls(Head(@)) \o Tail(@),
                      !.diffs = @ \o FrameRecords(Head(run.stack))]
       ELSE run' = [run EXCEPT !.pc = "done", !.ret = DiffsToJson(run.diffs)]
    /\ UNCHANGED <<router_vars, hydrate_vars>>

\* PatchStep that moves on only from a record that changed the tree
PatchStepRetrying ==
    /\ run.op = "apply_patch"
    /\ run.pc = "running"
    /\ IF run.idx < Len(run.patches)
       THEN IF apply_single_patch(run.tree, run.patches[run.idx + 1]) = run.tree
            THEN run' = run
            ELSE run' = [run EXCEPT
                           !.tree = apply_single_patch(@, run.patches[run.idx + 1]),
                           !.idx = @ + 1,
                           !.applied = Append(@, run.idx + 1)]
       ELSE run' = [run EXCEPT !.pc = "done", !.ret = ToJson(run.tree)]
    /\ UNCHANGED <<router_vars, hydrate_vars>>

\* One iteration of `for patch in patches`, or the serialization after it
PatchStep ==
    /\ run.op = "apply_patch"
    /\ run.pc = "running"
    /\ IF run.idx < Len(run.patches)
       THEN run' = [run EXCEPT
                      !.tree = apply_single_patch(@, run.patches[run.idx + 1]),
                      !.idx = @ + 1,
                      !.applied = Append(@, run.idx + 1)]
       ELSE run' = [run EXCEPT !.pc = "done", !.ret = ToJson(run.tree)]
    /\ UNCHANGED <<router_vars, hydrate_vars>>

StepsNext == MatchStep \/ DiffStep \/ PatchStep

\* a call that has begun runs on: nothing in it waits for anything
SpecSteps == StepsInit /\ [][StepsNext]_vars /\ WF_vars(StepsNext)

(***************************************************************************)
(* Properties of the router                                                *)
(***************************************************************************)
Score(r) == route_specificity(r.segments)

Matches(r, path) == match_segments(r.segments, PathTokens(path)).some

Matching(path) == {i \in 1..Len(routes) : Matches(routes[i], path)}

\* C1: match_route returns the matching route of highest specificity score,
\* among those of equal highest score the one registered first (with the
\* parameters its segments bind), and returns no match only when no
\* registered route matches.
C1_MatchIsMostSpecific ==
    last.op = "match_route" =>
        LET M == Matching(last.path)
        IN  /\ last.ret.some <=> M # {}
            /\ M # {} =>
                 \E i \in M :
                    /\ \A j \in M \ {i} :
                          \/ Score(routes[i]) > Score(routes[j])
                          \/ /\ Score(routes[i]) = Score(routes[j])
                             /\ routes[i].seq < routes[j].seq
                    /\ last.ret.route = routes[i].definition
                    /\ last.ret.params =
                         match_segments(routes[i].segments,
                                        PathTokens(last.path)).params

\* C1 witness: two matching routes of equal score and different definitions,
\* the one registered first is returned; a route of higher score that does
\* not match was registered after both.
C1_Witness ==
    /\ last.op = "match_route"
    /\ Len(routes) = 3
    /\ Matching(last.path) = {2, 3}
    /\ Score(routes[2]) = Score(routes[3])
    /\ routes[2].definition # routes[3].definition
    /\ routes[1].seq = 3
    /\ last.ret.some
    /\ last.ret.route = routes[2].definition

KindRank(kind) ==
    CASE kind = "Static" -> 3
      [] kind = "Dynamic" -> 2
      [] kind = "CatchAll" -> 1
      [] kind = "OptionalCatchAll" -> 0

\* The first position at which the segment kinds of a and b differ, 0 if
\* there is none within the shorter of the two
FirstKindDifference(a, b) ==
    LET D == {p \in 1..Len(a) : p <= Len(b) /\ a[p].kind # b[p].kind}
    IN  IF D = {} THEN 0 ELSE CHOOSE p \in D : \A q \in D : p <= q

\* C3: earlier positions dominate: the route with the more specific kind at
\* the first position where the kinds differ is ranked before the other,
\* whatever follows.
C3_EarlierPositionsDominate ==
    \A i, j \in 1..Len(routes) :
        LET p == FirstKindDifference(routes[i].segments, routes[j].segments)
        IN  (p # 0 /\ KindRank(routes[i].segments[p].kind)
                        > KindRank(routes[j].segments[p].kind))
            => i < j

\* C4: the registry is in non-increasing score order, routes of equal score
\* in registration order, and get_routes_json lists the patterns in that
\* order.
C4_RegistryOrdered ==
    /\ \A i, j \in 1..Len(routes) :
          i < j => \/ Score(routes[i]) > Score(routes[j])
                   \/ /\ Score(routes[i]) = Score(routes[j])
                      /\ routes[i].seq < routes[j].seq
    /\ last.op = "get_routes_json" =>
          /\ Len(last.ret) = Len(routes)
          /\ \A i \in 1..Len(routes) : last.ret[i] = routes[i].definition.pattern

\* C4 witness: three routes listed, the last registered one sorted between
\* the two others, and a tie kept in registration order.
C4_Witness ==
    /\ last.op = "get_routes_json"
    /\ Len(routes) = 3
    /\ routes[1].seq = 2
    /\ routes[2].seq = 3
    /\ routes[3].seq = 1
    /\ Score(routes[1]) = Score(routes[2])
    /\ Score(routes[2]) > Score(routes[3])

\* a and b have equal length and are identical except at one position, where
\* a is Static and b is Dynamic
StaticDynamicPair(a, b) ==
    /\ Len(a) = Len(b)
    /\ \E p \in 1..Len(a) :
          /\ a[p].kind = "Static"
          /\ b[p].kind = "Dynamic"
          /\ \A q \in 1..Len(a) : q # p => a[q] = b[q]

\* C5: of two routes identical except for Static against Dynamic at one
\* position, both matching the path, the Static one is ranked first, the
\* Dynamic one is never returned, and the Static one is returned when the
\* registry holds just the two -- for either order of registration.
C5_StaticBeatsDynamic ==
    last.op = "match_route" =>
        \A i, j \in Matching(last.path) :
            StaticDynamicPair(routes[i].segments, routes[j].segments) =>
                /\ i < j
                /\ last.ret.some
                /\ last.ret.route # routes[j].definition
                /\ Len(routes) = 2 => last.ret.route = routes[i].definition

\* C5 witness: the Dynamic route was registered first, the Static one second,
\* and the Static one is returned.
C5_Witness ==
    /\ last.op = "match_route"
    /\ Len(routes) = 2
    /\ Matching(last.path) = {1, 2}
    /\ StaticDynamicPair(routes[1].segments, routes[2].segments)
    /\ routes[2].seq = 1
    /\ last.ret.route = routes[1].definition

\* C6: the resolved session id is the same for every order in which the
\* (name, value) pairs are substituted.
C6_OrderIndependent ==
    (last.op = "match_route" /\ last.ret.some) =>
        \A order \in Orders(DOMAIN last.ret.params) :
            resolve_session_id(last.ret.route.session_id, last.ret.params, order)
                = last.ret.resolved_session_id

OnlyStaticDynamic(segments) ==
    \A n \in 1..Len(segments) : segments[n].kind \in {"Static", "Dynamic"}

\* C9: a route matches iff the walk over its segments does not fail and
\* leaves the cursor at the number of path tokens; a route of Static and
\* Dynamic segments only matches no path with more or fewer tokens than it
\* has segments.
C9_CursorAtEnd ==
    last.op = "match_route" =>
        \A i \in 1..Len(routes) :
            LET toks == PathTokens(last.path)
                w == WalkSegments(routes[i].segments, toks, 1, 0, NoParams)
            IN  /\ Matches(routes[i], last.path)
                     <=> (w.ok /\ w.path_idx = Len(toks))
                /\ (OnlyStaticDynamic(routes[i].segments)
                      /\ Len(routes[i].segments) # Len(toks))
                     => /\ ~Matches(routes[i], last.path)
                        /\ last.ret.some => last.ret.route # routes[i].definition

\* C9 witness: every segment of a Static/Dynamic route matched, path tokens
\* are left over, and the route is not the match.
C9_Witness ==
    /\ last.op = "match_route"
    /\ \E i \in 1..Len(routes) :
          LET toks == PathTokens(last.path)
              w == WalkSegments(routes[i].segments, toks, 1, 0, NoParams)
          IN  /\ OnlyStaticDynamic(routes[i].segments)
              /\ Len(routes[i].segments) > 0
              /\ w.ok
              /\ w.path_idx < Len(toks)
              /\ ~Matches(routes[i], last.path)

\* The walk over the first n segments of a route
WalkPrefix(segments, toks, n) ==
    WalkSegments(SubSeq(segments, 1, n), toks, 1, 0, NoParams)

\* C10: a CatchAll reached with no path token left fails the match; an
\* OptionalCatchAll never fails it: with no token left it binds nothing,
\* with tokens left it binds the remainder.
C10_CatchAllNeedsToken ==
    last.op = "match_route" =>
        \A i \in 1..Len(routes) :
            \A n \in 1..Len(routes[i].segments) :
                LET segs == routes[i].segments
                    toks == PathTokens(last.path)
                    before == WalkPrefix(segs, toks, n - 1)
                    after == WalkPrefix(segs, toks, n)
                IN  before.ok =>
                      /\ (segs[n].kind = "CatchAll" /\ before.path_idx = Len(toks))
                           => (~after.ok /\ ~Matches(routes[i], last.path))
                      /\ segs[n].kind = "OptionalCatchAll" =>
                           /\ after.ok
                           /\ before.path_idx = Len(toks)
                                => after.params = before.params
                           /\ before.path_idx < Len(toks)
                                => /\ segs[n].name \in DOMAIN after.params
                                   /\ after.params[segs[n].name] =
                                        Join(SubSeq(toks, before.path_idx + 1,
                                                    Len(toks)), <<"/">>)

\* C10 witness: on one path a CatchAll is reached with no token left and
\* fails, an OptionalCatchAll is reached with no token left and its route
\* is returned without a binding.
C10_Witness ==
    /\ last.op = "match_route"
    /\ last.ret.some
    /\ last.ret.params = NoParams
    /\ \E i, j \in 1..Len(routes) :
          LET toks == PathTokens(last.path)
              si == routes[i].segments
              sj == routes[j].segments
          IN  /\ Len(si) > 0
              /\ Len(sj) > 0
              /\ si[Len(si)].kind = "CatchAll"
              /\ WalkPrefix(si, toks, Len(si) - 1).ok
              /\ WalkPrefix(si, toks, Len(si) - 1).path_idx = Len(toks)
              /\ ~Matches(routes[i], last.path)
              /\ sj[Len(sj)].kind = "OptionalCatchAll"
              /\ WalkPrefix(sj, toks, Len(sj) - 1).path_idx = Len(toks)
              /\ last.ret.route = routes[j].definition

\* C11: a CatchAll, or an OptionalCatchAll with tokens left, reached at
\* cursor c binds its name to the path tokens from c to the end, in order and
\* separated by '/', keeps the other bindings and moves the cursor to the
\* end of the path; when the route matches, the match carries that binding.
C11_CatchAllBindsRemainder ==
    last.op = "match_route" =>
        \A i \in 1..Len(routes) :
            \A n \in 1..Len(routes[i].segments) :
                LET segs == routes[i].segments
                    toks == PathTokens(last.path)
                    before == WalkPrefix(segs, toks, n - 1)
                    after == WalkPrefix(segs, toks, n)
                    c == before.path_idx
                IN  (/\ segs[n].kind \in {"CatchAll", "OptionalCatchAll"}
                     /\ before.ok
                     /\ c < Len(toks))
                    => /\ after.ok
                       /\ after.path_idx = Len(toks)
                       /\ DOMAIN after.params = DOMAIN before.params \cup {segs[n].name}
                       /\ Split(after.params[segs[n].name], "/")
                            = SubSeq(toks, c + 1, Len(toks))
                       /\ \A k \in DOMAIN before.params \ {segs[n].name} :
                             after.params[k] = before.params[k]
                       /\ Matches(routes[i], last.path) =>
                            match_segments(segs, toks).params[segs[n].name]
                                = after.params[segs[n].name]
                       /\ (last.ret.some /\ last.ret.route = routes[i].definition) =>
                            last.ret.params[segs[n].name]
                                = after.params[segs[n].name]

\* C11 witness: the returned route ends in a CatchAll that was reached with
\* two tokens left and binds both.
C11_Witness ==
    /\ last.op = "match_route"
    /\ last.ret.some
    /\ \E i \in 1..Len(routes) :
          LET segs == routes[i].segments
              toks == PathTokens(last.path)
          IN  /\ last.ret.route = routes[i].definition
              /\ Len(segs) > 0
              /\ segs[Len(segs)].kind = "CatchAll"
              /\ WalkPrefix(segs, toks, Len(segs) - 1).path_idx = Len(toks) - 2
              /\ Len(Split(last.ret.params[segs[Len(segs)].name], "/")) = 2

\* The template with its placeholders replaced in one pass, left to right:
\* where "$name" stands for a bound name, the value takes its place and is
\* not read again.  Where the placeholders of two bound names start at the
\* same place (one name a prefix of the other), either may be taken, hence a
\* set of texts.
RECURSIVE SubstituteAll(_, _)
SubstituteAll(template, params) ==
    IF template = <<>> THEN {<<>>}
    ELSE LET K == {k \in DOMAIN params : StartsWith(template, <<"$">> \o k)}
         IN  IF K = {}
             THEN {<<Head(template)>> \o rest :
                      rest \in SubstituteAll(Tail(template), params)}
             ELSE UNION {{params[k] \o rest :
                            rest \in SubstituteAll(SubSeq(template, Len(k) + 2,
                                                          Len(template)), params)}
                         : k \in K}

\* C12: the resolved session id of a match is the route's template with
\* every occurrence of $name replaced by the value bound to name, for each
\* bound parameter.
C12_SessionIdResolved ==
    (last.op = "match_route" /\ last.ret.some) =>
        last.ret.resolved_session_id
            \in SubstituteAll(last.ret.route.session_id, last.ret.params)

\* The text p stands somewhere in the text s
Contains(s, p) ==
    \E k \in 1..(Len(s) - Len(p) + 1) : SubSeq(s, k, k + Len(p) - 1) = p

\* Segment n of the route is an OptionalCatchAll reached with no token left,
\* and no other segment of the route binds its name
UnboundOptional(segs, toks, n) ==
    /\ segs[n].kind = "OptionalCatchAll"
    /\ WalkPrefix(segs, toks, n - 1).ok
    /\ WalkPrefix(segs, toks, n - 1).path_idx = Len(toks)
    /\ \A m \in 1..Len(segs) :
          (m # n /\ segs[m].kind # "Static") => segs[m].name # segs[n].name

\* C19: when the template of the matched route references $name and name
\* is that of an OptionalCatchAll that matched zero tokens, the match has no
\* parameter called name and the resolved session id still holds $name.
C19_UnboundPlaceholderKept ==
    (last.op = "match_route" /\ last.ret.some) =>
        \A i \in 1..Len(routes) :
            routes[i].definition = last.ret.route =>
                \A n \in 1..Len(routes[i].segments) :
                    LET segs == routes[i].segments
                        placeholder == <<"$">> \o segs[n].name
                    IN  (/\ UnboundOptional(segs, PathTokens(last.path), n)
                         /\ Contains(last.ret.route.session_id, placeholder))
                        => /\ segs[n].name \notin DOMAIN last.ret.params
                           /\ Contains(last.ret.resolved_session_id, placeholder)

\* The token is wrapped in parentheses
Parenthesised(token) ==
    token # <<>> /\ Head(token) = "(" /\ token[Len(token)] = ")"

\* The pattern text with its parenthesised tokens taken out
WithoutGroups(pattern) ==
    Join(SelectSeq(Split(pattern, "/"), LAMBDA token : ~Parenthesised(token)),
         <<"/">>)

\* The registry had every pattern been registered without its groups
RoutesWithoutGroups ==
    [i \in 1..Len(routes) |->
        [routes[i] EXCEPT
            !.segments = parse_pattern(WithoutGroups(routes[i].definition.pattern))]]

\* C20: a pattern with parenthesised tokens parses to the segments of the
\* pattern without them, scores the same, and matches the same paths with
\* the same parameters; match_route returns what it would return had the
\* patterns been registered without their groups.
C20_RouteGroupsInvisible ==
    /\ \A i \in 1..Len(routes) :
          LET plain == parse_pattern(WithoutGroups(routes[i].definition.pattern))
          IN  /\ routes[i].segments = plain
              /\ \A n \in 1..Len(routes[i].segments) :
                    ~Parenthesised(routes[i].segments[n].name)
              /\ route_specificity(routes[i].segments) = route_specificity(plain)
              /\ last.op = "match_route" =>
                    match_segments(routes[i].segments, PathTokens(last.path))
                        = match_segments(plain, PathTokens(last.path))
    /\ last.op = "match_route" =>
          last.ret \in match_route(RoutesWithoutGroups, last.path)

\* C20 witness: the returned route has a pattern with groups, one of them
\* wrapping a bracketed token, and binds a parameter.
C20_Witness ==
    /\ last.op = "match_route"
    /\ last.ret.some
    /\ WithoutGroups(last.ret.route.pattern) # last.ret.route.pattern
    /\ Contains(last.ret.route.pattern, <<"(", "[">>)
    /\ last.ret.params # NoParams
    /\ Len(parse_pattern(last.ret.route.pattern)) = 2

\* C23: a Static(x) segment reached at cursor c lets the walk go on only
\* when a token stands at c and is exactly x, letter case included; then the
\* cursor moves by one and nothing is bound.  Any other token, or no token,
\* fails the route, which is then not the one match_route returns.
C23_StaticMatchesExactly ==
    last.op = "match_route" =>
        \A i \in 1..Len(routes) :
            \A n \in 1..Len(routes[i].segments) :
                LET segs == routes[i].segments
                    toks == PathTokens(last.path)
                    before == WalkPrefix(segs, toks, n - 1)
                    after == WalkPrefix(segs, toks, n)
                    c == before.path_idx
                IN  (segs[n].kind = "Static" /\ before.ok) =>
                       /\ after.ok <=> (c < Len(toks) /\ toks[c + 1] = segs[n].name)
                       /\ after.ok => /\ after.path_idx = c + 1
                                      /\ after.params = before.params
                       /\ ~after.ok =>
                             /\ ~Matches(routes[i], last.path)
                             /\ last.ret.some =>
                                   last.ret.route # routes[i].definition

\* C23 witness: the path token differs from the Static text of the only
\* route in letter case alone, and nothing is matched.
C23_Witness ==
    /\ last.op = "match_route"
    /\ Len(routes) = 1
    /\ Len(routes[1].segments) = 1
    /\ routes[1].segments[1] = Static(<<"a">>)
    /\ PathTokens(last.path) = <<<<"A">>>>
    /\ ~last.ret.some

\* A CatchAll stands before a later Static, Dynamic or CatchAll segment
CatchAllFollowed(segs) ==
    \E n \in 1..Len(segs) :
        /\ segs[n].kind = "CatchAll"
        /\ \E m \in (n + 1)..Len(segs) :
              segs[m].kind \in {"Static", "Dynamic", "CatchAll"}

\* C27: a route with a CatchAll followed by a Static, Dynamic or CatchAll
\* segment matches no path: where the walk gets past the CatchAll the cursor
\* stands at the end of the path, the walk then fails, match_segments gives
\* None for every path, and match_route never returns the route.
C27_CatchAllFollowedNeverMatches ==
    \A i \in 1..Len(routes) :
        LET segs == routes[i].segments
        IN  CatchAllFollowed(segs) =>
               /\ \A path \in Paths :
                     LET toks == PathTokens(path)
                     IN  /\ match_segments(segs, toks) = NoMatch
                         /\ \A n \in 1..Len(segs) :
                               (segs[n].kind = "CatchAll"
                                  /\ WalkPrefix(segs, toks, n).ok) =>
                                     WalkPrefix(segs, toks, n).path_idx = Len(toks)
                         /\ ~WalkPrefix(segs, toks, Len(segs)).ok
               /\ (last.op = "match_route" /\ last.ret.some) =>
                      last.ret.route # routes[i].definition

\* C27 witness: every registered route has a followed CatchAll, the walk of
\* one of them gets past its CatchAll on the path asked for, and match_route
\* gives None.
C27_Witness ==
    /\ last.op = "match_route"
    /\ routes # <<>>
    /\ \A i \in 1..Len(routes) : CatchAllFollowed(routes[i].segments)
    /\ \E i \in 1..Len(routes) :
          \E n \in 1..Len(routes[i].segments) :
              /\ routes[i].segments[n].kind = "CatchAll"
              /\ WalkPrefix(routes[i].segments, PathTokens(last.path), n).ok
    /\ ~last.ret.some

\* The sequence s without its element at position pos
Without(s, pos) == SubSeq(s, 1, pos - 1) \o SubSeq(s, pos + 1, Len(s))

\* C28: a step of add_route makes the registry one longer, also when the
\* pattern is registered already; taking the new route out of the new
\* registry gives the old registry back, entry for entry and in the same
\* order.  A step of match_route or has_route leaves the registry as it was.
C28_AddRouteOnlyAdds ==
    [][ /\ last'.op = "add_route" =>
              /\ Len(routes') = Len(routes) + 1
              /\ \E pos \in 1..Len(routes') :
                    /\ routes'[pos].definition = last'.definition
                    /\ routes'[pos].segments = parse_pattern(last'.definition.pattern)
                    /\ Without(routes', pos) = routes
              /\ \A i, j \in 1..Len(routes) :
                    i < j =>
                       \E k, l \in 1..Len(routes') :
                           /\ k < l
                           /\ routes'[k] = routes[i]
                           /\ routes'[l] = routes[j]
        /\ last'.op \in {"match_route", "has_route"} => routes' = routes
      ]_vars

\* C28 witness: a pattern was registered a second time, both routes are in
\* the registry, and the route added last was sorted in before an older one.
C28_Witness ==
    /\ last.op = "add_route"
    /\ Len(routes) = 3
    /\ \E i, j \in 1..3 :
          /\ i # j
          /\ routes[i].definition = routes[j].definition
    /\ routes[3].seq # 3

(***************************************************************************)
(* Properties of diff and patch                                            *)
(***************************************************************************)
OldTree == FromJsonOrNull(tree_text)

NewTree == FromJsonOrNull(new_text)

PatchedTree == FromJsonOrNull(patched_text)

ChangeList == PatchesFromJson(change_list)

\* b holds the elements of a in another order
IsPermutation(a, b) ==
    /\ Len(a) = Len(b)
    /\ a # b
    /\ \A i \in 1..Len(a) :
          Cardinality({j \in 1..Len(a) : a[j] = a[i]})
              = Cardinality({j \in 1..Len(b) : b[j] = a[i]})

\* Somewhere at the same place in a and b stand two arrays, the second a
\* reordering of the first
RECURSIVE ArrayReordering(_, _)
ArrayReordering(a, b) ==
    CASE a[1] = "array" /\ b[1] = "array" ->
            \/ IsPermutation(a[2], b[2])
            \/ \E i \in 1..Len(a[2]) :
                  i <= Len(b[2]) /\ ArrayReordering(a[2][i], b[2][i])
      [] a[1] = "object" /\ b[1] = "object" ->
            \E k \in DOMAIN a[2] \cap DOMAIN b[2] : ArrayReordering(a[2][k], b[2][k])
      [] OTHER -> FALSE

\* C2: round trip: applying diff(A, B) to A yields B, B not being an
\* array-reordering of A.
C2_RoundTrip ==
    (hop = "patched" /\ ~ArrayReordering(OldTree, NewTree)) => PatchedTree = NewTree

\* C7: diff(A, A) is the empty change list.
C7_DiffSelfEmpty ==
    (hop # "start" /\ OldTree = NewTree) => change_list = <<"[", "]">>

\* C7 witness: a tree diffed against itself that nests an array with a null
\* and a number inside an object.
C7_Witness ==
    /\ hop = "diffed"
    /\ OldTree = NewTree
    /\ OldTree[1] = "object"
    /\ \E k \in DOMAIN OldTree[2] :
          /\ OldTree[2][k][1] = "array"
          /\ Len(OldTree[2][k][2]) = 2
          /\ OldTree[2][k][2][1] = Null
          /\ OldTree[2][k][2][2][1] = "number"
    /\ change_list = <<"[", "]">>

\* Navigation to the parent of the record's target fails: before the last
\* path part, a key is missing from an object, an index is not a position
\* of an array, or the node is a scalar or null.
RECURSIVE NavigationFailsFrom(_, _, _)
NavigationFailsFrom(current, path_parts, n) ==
    IF n >= Len(path_parts) THEN FALSE
    ELSE CASE current[1] = "object" ->
                IF path_parts[n] \in DOMAIN current[2]
                THEN NavigationFailsFrom(current[2][path_parts[n]], path_parts, n + 1)
                ELSE TRUE
           [] current[1] = "array" ->
                IF /\ ParseUsize(path_parts[n]) >= 0
                   /\ ParseUsize(path_parts[n]) < Len(current[2])
                THEN NavigationFailsFrom(current[2][ParseUsize(path_parts[n]) + 1],
                                         path_parts, n + 1)
                ELSE TRUE
           [] OTHER -> TRUE

NavigationFails(tree, patch) ==
    NavigationFailsFrom(tree, NonEmptyOnly(Split(patch.path, ".")), 1)

\* The tree apply_patch holds before it applies record number i
TreeBeforeIn(tree, list, i) == ApplyAll(tree, SubSeq(list, 1, i - 1))

TreeBefore(i) == TreeBeforeIn(OldTree, ChangeList, i)

\* C8: a record whose navigation fails leaves the tree as it is, and the
\* result of the whole patch is that of the list without the record.
C8_FailedRecordSkipped ==
    hop = "patched" =>
        LET tree == OldTree
            list == ChangeList
        IN  \A i \in 1..Len(list) :
                LET before == TreeBeforeIn(tree, list, i)
                IN  NavigationFails(before, list[i]) =>
                       /\ TreeBeforeIn(tree, list, i + 1) = before
                       /\ PatchedTree = ApplyAll(tree, RemoveAt(list, i - 1))

\* C8 witness: the first record fails to navigate, the record after it
\* changes the tree.
C8_Witness ==
    /\ hop = "patched"
    /\ Len(ChangeList) = 2
    /\ NavigationFails(OldTree, ChangeList[1])
    /\ OldTree[1] = "object"
    /\ PatchedTree # OldTree
    /\ PatchedTree = apply_single_patch(OldTree, ChangeList[2])

\* The node a dotted path addresses: down through objects by key and
\* through arrays by index, from path part n to path part m; None where the
\* path leaves the tree
RECURSIVE NodeAtFrom(_, _, _, _)
NodeAtFrom(current, path_parts, n, m) ==
    IF n > m THEN Some(current)
    ELSE CASE current[1] = "object" ->
                IF path_parts[n] \in DOMAIN current[2]
                THEN NodeAtFrom(current[2][path_parts[n]], path_parts, n + 1, m)
                ELSE None
           [] current[1] = "array" ->
                IF /\ ParseUsize(path_parts[n]) >= 0
                   /\ ParseUsize(path_parts[n]) < Len(current[2])
                THEN NodeAtFrom(current[2][ParseUsize(path_parts[n]) + 1],
                                path_parts, n + 1, m)
                ELSE None
           [] OTHER -> None

PathParts(patch) == NonEmptyOnly(Split(patch.path, "."))

\* The node that holds the target of the record: the one addressed by the
\* path without its final part
ParentNode(tree, patch) ==
    NodeAtFrom(tree, PathParts(patch), 1, Len(PathParts(patch)) - 1)

FinalPart(patch) == PathParts(patch)[Len(PathParts(patch))]

\* The record is an Add or an Update that carries a value
CarriesValue(patch) ==
    /\ patch.change_type \in {Add, Update}
    /\ patch.new_value.some
    /\ FromJson(patch.new_value.val).ok

NewValue(patch) == FromJson(patch.new_value.val).val

\* C13: an Add or Update record whose final path part addresses an object
\* sets that key of the object to new_value, whether the key was there or
\* not and whatever the key is, and leaves the other keys as they were.
C13_ObjectInsertOrOverwrite ==
    hop = "patched" =>
        \A i \in 1..Len(ChangeList) :
            LET patch == ChangeList[i]
                parent == ParentNode(TreeBefore(i), patch)
                after == ParentNode(TreeBefore(i + 1), patch)
            IN  (/\ PathParts(patch) # <<>>
                 /\ CarriesValue(patch)
                 /\ parent.some
                 /\ parent.val[1] = "object")
                => /\ after.some
                   /\ after.val[1] = "object"
                   /\ DOMAIN after.val[2] = DOMAIN parent.val[2] \cup {FinalPart(patch)}
                   /\ after.val[2][FinalPart(patch)] = NewValue(patch)
                   /\ \A k \in DOMAIN parent.val[2] \ {FinalPart(patch)} :
                         after.val[2][k] = parent.val[2][k]

\* The node the navigation loop of apply_single_patch stands on after path
\* parts n to m: a part that reads as an index steps into an array only,
\* any other part into an object only; None where the loop returns
RECURSIVE NodeReachedFrom(_, _, _, _)
NodeReachedFrom(current, path_parts, n, m) ==
    IF n > m THEN Some(current)
    ELSE LET idx == ParseUsize(path_parts[n])
         IN  IF idx >= 0
             THEN IF current[1] = "array" /\ idx < Len(current[2])
                  THEN NodeReachedFrom(current[2][idx + 1], path_parts, n + 1, m)
                  ELSE None
             ELSE IF current[1] = "object" /\ path_parts[n] \in DOMAIN current[2]
                  THEN NodeReachedFrom(current[2][path_parts[n]], path_parts, n + 1, m)
                  ELSE None

\* `current` when the loop arrives at the final path part
ReachedParent(tree, patch) ==
    NodeReachedFrom(tree, PathParts(patch), 1, Len(PathParts(patch)) - 1)

\* C14: at the final path part, on an array of length len and with index i:
\* Add/Update with i < len overwrites slot i and keeps the length; Add/Update
\* with i >= len appends new_value; Remove with i < len deletes slot i and
\* the later elements move down by one; Remove with i >= len changes nothing.
\* After the last record the array is found so in what apply_patch returns.
C14_ArrayAtFinalPart ==
    hop = "patched" =>
        LET tree == OldTree
            list == ChangeList
        IN  \A r \in 1..Len(list) :
                LET patch == list[r]
                    before == TreeBeforeIn(tree, list, r)
                    parent == ReachedParent(before, patch)
                    after == ReachedParent(TreeBeforeIn(tree, list, r + 1), patch)
                    i == ParseUsize(FinalPart(patch))
                    old == parent.val[2]
                    new == after.val[2]
                IN  (/\ PathParts(patch) # <<>>
                     /\ parent.some
                     /\ parent.val[1] = "array"
                     /\ i >= 0)
                    => /\ after.some
                       /\ after.val[1] = "array"
                       /\ (CarriesValue(patch) /\ i < Len(old)) =>
                             /\ Len(new) = Len(old)
                             /\ new[i + 1] = NewValue(patch)
                             /\ \A j \in 1..Len(old) : j # i + 1 => new[j] = old[j]
                       /\ (CarriesValue(patch) /\ i >= Len(old)) =>
                             /\ Len(new) = Len(old) + 1
                             /\ new[Len(new)] = NewValue(patch)
                             /\ \A j \in 1..Len(old) : new[j] = old[j]
                       /\ (patch.change_type = Remove /\ i < Len(old)) =>
                             /\ Len(new) = Len(old) - 1
                             /\ \A j \in 1..Len(new) :
                                   new[j] = IF j <= i THEN old[j] ELSE old[j + 1]
                       /\ (patch.change_type = Remove /\ i >= Len(old)) => new = old
                       /\ r = Len(list) => ReachedParent(PatchedTree, patch) = after

\* C14 witness: slot 0 of a two-element array is removed, the second
\* element moves down to slot 0 and is then overwritten by the next record.
C14_Witness ==
    /\ hop = "patched"
    /\ Len(ChangeList) = 2
    /\ OldTree[1] = "array"
    /\ Len(OldTree[2]) = 2
    /\ PathParts(ChangeList[1]) = <<<<"0">>>>
    /\ ChangeList[1].change_type = Remove
    /\ TreeBefore(2) = Array(<<OldTree[2][2]>>)
    /\ PathParts(ChangeList[2]) = <<<<"0">>>>
    /\ CarriesValue(ChangeList[2])
    /\ PatchedTree = Array(<<NewValue(ChangeList[2])>>)
    /\ PatchedTree # TreeBefore(2)

\* C15: a record with an empty path targets the root: an Add or Update
\* makes new_value the whole tree, a Remove makes the tree Null, whatever
\* the tree was; as the last record of the list it decides what apply_patch
\* returns.
C15_RootRecord ==
    hop = "patched" =>
        LET tree == OldTree
            list == ChangeList
        IN  \A r \in 1..Len(list) :
                LET patch == list[r]
                    after == TreeBeforeIn(tree, list, r + 1)
                IN  patch.path = <<>> =>
                      /\ CarriesValue(patch) =>
                            /\ after = NewValue(patch)
                            /\ r = Len(list) => PatchedTree = NewValue(patch)
                      /\ patch.change_type = Remove =>
                            /\ after = Null
                            /\ r = Len(list) =>
                                  patched_text = <<"n", "u", "l", "l">>

\* C15 witness: a non-empty array is replaced by the new_value of a root
\* Update, and the root Remove after it leaves Null.
C15_Witness ==
    /\ hop = "patched"
    /\ Len(ChangeList) = 2
    /\ OldTree[1] = "array"
    /\ OldTree[2] # <<>>
    /\ ChangeList[1].path = <<>>
    /\ CarriesValue(ChangeList[1])
    /\ TreeBefore(2) = NewValue(ChangeList[1])
    /\ TreeBefore(2) # OldTree
    /\ ChangeList[2].path = <<>>
    /\ ChangeList[2].change_type = Remove
    /\ PatchedTree = Null

\* C16: a Remove record whose parent object exists and lacks the target key
\* changes nothing: the tree after the record is the tree before it, and
\* apply_patch still returns the serialized tree.
C16_RemoveMissingKey ==
    hop = "patched" =>
        LET tree == OldTree
            list == ChangeList
        IN  \A r \in 1..Len(list) :
                LET patch == list[r]
                    parent == ParentNode(TreeBeforeIn(tree, list, r), patch)
                IN  (/\ patch.change_type = Remove
                     /\ PathParts(patch) # <<>>
                     /\ parent.some
                     /\ parent.val[1] = "object"
                     /\ FinalPart(patch) \notin DOMAIN parent.val[2])
                    => /\ TreeBeforeIn(tree, list, r + 1) = TreeBeforeIn(tree, list, r)
                       /\ Len(list) = 1 =>
                             /\ PatchedTree = tree
                             /\ patched_text = ToJson(tree)

\* C16 witness: the only record removes a key that an object with another
\* key does not hold, and the tree comes back as it went in.
C16_Witness ==
    /\ hop = "patched"
    /\ Len(ChangeList) = 1
    /\ ChangeList[1].change_type = Remove
    /\ Len(PathParts(ChangeList[1])) = 1
    /\ OldTree[1] = "object"
    /\ DOMAIN OldTree[2] # {}
    /\ FinalPart(ChangeList[1]) \notin DOMAIN OldTree[2]
    /\ ParseUsize(FinalPart(ChangeList[1])) < 0
    /\ patched_text = tree_text

\* The shape of a change record: an add has no old_value and has a
\* new_value, a remove has an old_value and no new_value, an update has
\* both and they differ
WellShaped(d) ==
    CASE d.change_type = Add -> ~d.old_value.some /\ d.new_value.some
      [] d.change_type = Remove -> d.old_value.some /\ ~d.new_value.some
      [] d.change_type = Update ->
            /\ d.old_value.some
            /\ d.new_value.some
            /\ d.old_value.val # d.new_value.val
            /\ FromJson(d.old_value.val) # FromJson(d.new_value.val)
      [] OTHER -> FALSE

\* C17: every record of the change list diff_trees returns is well shaped
\* (and the list read back holds as many records as the diff found).
C17_RecordsWellShaped ==
    hop # "start" =>
        /\ Len(ChangeList) = Len(compute_diff(tree_text, new_text, <<>>))
        /\ \A r \in 1..Len(ChangeList) : WellShaped(ChangeList[r])

\* C17 witness: a diff of two arrays that yields an add for the first slot
\* and an update for the second.
C17_Witness ==
    /\ hop = "diffed"
    /\ Len(ChangeList) = 2
    /\ ChangeList[1].change_type = Add
    /\ ~ChangeList[1].old_value.some
    /\ ChangeList[1].new_value.some
    /\ ChangeList[2].change_type = Update
    /\ ChangeList[2].old_value.some
    /\ ChangeList[2].new_value.some
    /\ ChangeList[2].old_value.val # ChangeList[2].new_value.val

\* C18: applying the change list diff(A, B) a second time changes nothing:
\* patch(patch(A, d), d) = patch(A, d).
C18_PatchIdempotent ==
    hop = "repatched" => repatched_text = patched_text

\* The text is one JSON value
IsJson(text) == FromJson(text).ok

\* The text is a JSON array of change records
IsPatchList(text) ==
    /\ IsJson(text)
    /\ FromJson(text).val[1] = "array"
    /\ \A i \in 1..Len(FromJson(text).val[2]) : IsTreeDiff(FromJson(text).val[2][i])

NullText == <<"n", "u", "l", "l">>

\* The tree text a call falls back to: the text itself if it is JSON, else
\* that of Null
OrNullText(text) == IF IsJson(text) THEN text ELSE NullText

\* C21: malformed input is absorbed: diff_trees reads an unparseable old or
\* new tree as Null, apply_patch reads an unparseable tree as Null and an
\* unparseable change list as the empty list, returning the tree as it is;
\* what a call returns is always JSON (a list for diff_trees).
C21_MalformedInputDegrades ==
    /\ hop = "diffed" =>
          /\ IsPatchList(change_list)
          /\ change_list = diff_trees(OrNullText(tree_text), OrNullText(new_text))
          /\ (~IsJson(tree_text) /\ ~IsJson(new_text)) => change_list = <<"[", "]">>
    /\ hop = "patched" =>
          /\ IsJson(patched_text)
          /\ patched_text = apply_patch(OrNullText(tree_text), change_list)
          /\ ~IsPatchList(change_list) => patched_text = OrNullText(tree_text)

\* C21 witness: apply_patch is handed a tree that is an object and a change
\* list that is no JSON, and returns the tree.
C21_Witness ==
    /\ hop = "patched"
    /\ ~IsJson(change_list)
    /\ change_list # <<>>
    /\ IsJson(tree_text)
    /\ FromJson(tree_text).val[1] = "object"
    /\ patched_text = tree_text

IsScalar(val) == val[1] \in {"bool", "number", "string"}

\* Where two trees differ in nothing but one non-null scalar below a chain of
\* object keys: the keys, the old and the new scalar; None if they differ
\* otherwise or not at all
RECURSIVE SingleChange(_, _)
SingleChange(a, b) ==
    IF a[1] = "object" /\ b[1] = "object" /\ DOMAIN a[2] = DOMAIN b[2]
    THEN LET D == {k \in DOMAIN a[2] : a[2][k] # b[2][k]}
         IN  IF Cardinality(D) # 1 THEN None
             ELSE LET k == CHOOSE x \in D : TRUE
                      sub == SingleChange(a[2][k], b[2][k])
                  IN  IF sub.some
                      THEN Some([keys |-> <<k>> \o sub.val.keys,
                                 old |-> sub.val.old, new |-> sub.val.new])
                      ELSE None
    ELSE IF IsScalar(a) /\ IsScalar(b) /\ a # b
    THEN Some([keys |-> <<>>, old |-> a, new |-> b])
    ELSE None

\* C22: for two object trees that differ only in one non-null scalar below
\* the object keys k1, ..., kn, the diff is exactly one record: an update
\* whose path is the keys joined by '.', whose old_value is the old scalar
\* and whose new_value is the new one.
C22_SingleScalarChange ==
    hop # "start" =>
        LET change == SingleChange(OldTree, NewTree)
            list == ChangeList
        IN  (change.some /\ change.val.keys # <<>>) =>
               /\ Len(list) = 1
               /\ list[1].change_type = Update
               /\ list[1].path = Join(change.val.keys, <<".">>)
               /\ list[1].old_value = Some(ToJson(change.val.old))
               /\ list[1].new_value = Some(ToJson(change.val.new))

\* An array none of whose elements is null
ArrayWithoutNull(v) ==
    /\ v[1] = "array"
    /\ \A k \in 1..Len(v[2]) : v[2][k] # Null

\* The arrays compared at `path`: the trees themselves, or the values of the
\* only key "a" of both
ArraysAt(old, new) ==
    IF old[1] = "array" /\ new[1] = "array"
    THEN {[path |-> <<>>, old |-> old, new |-> new]}
    ELSE IF /\ old[1] = "object" /\ new[1] = "object"
            /\ DOMAIN old[2] = {<<"a">>} /\ DOMAIN new[2] = {<<"a">>}
            /\ old[2][<<"a">>][1] = "array" /\ new[2][<<"a">>][1] = "array"
         THEN {[path |-> <<"a">>, old |-> old[2][<<"a">>], new |-> new[2][<<"a">>]]}
         ELSE {}

\* The index a record's path names right below `prefix` (the empty path or
\* one key), -1 if it names none
IndexBelow(prefix, path) ==
    LET parts == Split(path, ".")
        depth == IF prefix = <<>> THEN 0 ELSE 1
    IN  IF Len(parts) > depth THEN ParseUsize(parts[depth + 1]) ELSE -1

\* C24: for two arrays without null elements compared at a path, the change
\* list ends with one record for each index from the shorter length up to the
\* longer length minus one, in ascending order: a remove record carrying the
\* old element when the new array is shorter, an add record carrying the new
\* element when it is longer.  The records before them name common indices.
C24_ArrayTailRecords ==
    hop # "start" =>
        LET list == ChangeList
        IN  \A c \in ArraysAt(OldTree, NewTree) :
                (ArrayWithoutNull(c.old) /\ ArrayWithoutNull(c.new)) =>
                    LET lo == Len(c.old[2])
                        ln == Len(c.new[2])
                        common == IF lo < ln THEN lo ELSE ln
                        extra == (IF lo < ln THEN ln ELSE lo) - common
                        first == Len(list) - extra
                    IN  /\ first >= 0
                        /\ \A t \in 1..extra :
                              list[first + t] =
                                 IF ln < lo
                                 THEN TreeDiff(ChildPath(c.path, ToDecimal(common + t - 1)),
                                               Remove,
                                               Some(ToJson(c.old[2][common + t])), None)
                                 ELSE TreeDiff(ChildPath(c.path, ToDecimal(common + t - 1)),
                                               Add,
                                               None, Some(ToJson(c.new[2][common + t])))
                        /\ \A t \in 1..first :
                              /\ IndexBelow(c.path, list[t].path) >= 0
                              /\ IndexBelow(c.path, list[t].path) < common

\* C24 witness: an array of two elements was diffed against an array of none,
\* both below the key "a"; and, at the root, a longer array whose common
\* element differs.
C24_Witness ==
    /\ hop = "diffed"
    /\ \/ /\ OldTree = Object([k \in {<<"a">>} |-> Array(<<Number(1), Number(2)>>)])
          /\ NewTree = Object([k \in {<<"a">>} |-> Array(<<>>)])
       \/ /\ OldTree = Array(<<Number(1)>>)
          /\ NewTree = Array(<<Number(2), Number(1)>>)

\* The pairs of values diff_values meets one step below the root: the trees
\* themselves, the values of the only key "a" of both, and the items of two
\* arrays, a missing item read as Null
ValuesMet(old, new) ==
    {[path |-> <<>>, old |-> old, new |-> new]}
    \cup (IF /\ old[1] = "object" /\ new[1] = "object"
             /\ DOMAIN old[2] = {<<"a">>} /\ DOMAIN new[2] = {<<"a">>}
          THEN {[path |-> <<"a">>, old |-> old[2][<<"a">>], new |-> new[2][<<"a">>]]}
          ELSE {})
    \cup (IF old[1] = "array" /\ new[1] = "array"
          THEN {[path |-> ToDecimal(i - 1),
                 old |-> IF i <= Len(old[2]) THEN old[2][i] ELSE Null,
                 new |-> IF i <= Len(new[2]) THEN new[2][i] ELSE Null]
                : i \in 1..(IF Len(old[2]) < Len(new[2])
                            THEN Len(new[2]) ELSE Len(old[2]))}
          ELSE {})

\* The records of the list whose path is p or lies below p
RecordsUnder(list, p) ==
    SelectSeq(list, LAMBDA d : d.path = p \/ StartsWith(d.path, p \o <<".">>))

\* C25: where Null is set against a value that is not Null the change list
\* holds exactly one record at or below that path: an add record at the path
\* itself carrying the whole new value; where a value that is not Null is set
\* against Null, a remove record at the path itself carrying the whole old
\* value.
C25_NullAgainstValue ==
    hop # "start" =>
        LET list == ChangeList
        IN  \A c \in ValuesMet(OldTree, NewTree) :
                LET under == IF c.path = <<>> THEN list ELSE RecordsUnder(list, c.path)
                IN  /\ (c.old = Null /\ c.new # Null) =>
                          under = <<TreeDiff(c.path, Add, None, Some(ToJson(c.new)))>>
                    /\ (c.old # Null /\ c.new = Null) =>
                          under = <<TreeDiff(c.path, Remove, Some(ToJson(c.old)), None)>>

\* C25 witness: below the key "a", Null was diffed against an array of two
\* elements.
C25_Witness ==
    /\ hop = "diffed"
    /\ OldTree = Object([k \in {<<"a">>} |-> Null])
    /\ NewTree = Object([k \in {<<"a">>} |-> Array(<<Number(1), Number(2)>>)])
    /\ Len(ChangeList) = 1

\* A tree built only from objects and non-null scalars whose object keys are
\* non-empty, hold no '.', and do not parse as an unsigned integer
RECURSIVE Restricted(_)
Restricted(v) ==
    CASE v[1] \in {"null", "array"} -> FALSE
      [] v[1] = "object" ->
            \A k \in DOMAIN v[2] :
                /\ k # <<>>
                /\ \A i \in 1..Len(k) : k[i] # "."
                /\ ParseUsize(k) = -1
                /\ Restricted(v[2][k])
      [] OTHER -> TRUE

\* C29: for restricted trees A and B, apply_patch(A, diff_trees(A, B)) is B.
C29_RestrictedRoundTrip ==
    hop \in {"patched", "repatched"} =>
        LET old == OldTree
            new == NewTree
        IN  (/\ IsJson(tree_text) /\ IsJson(new_text)
             /\ Restricted(old) /\ Restricted(new)) =>
                /\ PatchedTree = new
                /\ patched_text = ToJson(new)

\* C29 witness: two restricted objects were diffed and patched, the change
\* list removing a key of a nested object and the patch arriving at the new
\* tree.
C29_Witness ==
    /\ hop = "patched"
    /\ IsJson(tree_text) /\ IsJson(new_text)
    /\ Restricted(OldTree) /\ Restricted(NewTree)
    /\ OldTree[1] = "object" /\ NewTree[1] = "object"
    /\ \E i \in 1..Len(ChangeList) :
          /\ ChangeList[i].change_type = Remove
          /\ Len(PathParts(ChangeList[i])) = 2
    /\ PatchedTree = NewTree

\* The number of nodes of a value, each element or member counted once more
\* for its slot
RECURSIVE Size(_)
RECURSIVE SizeOfItems(_)
RECURSIVE SizeOfMembers(_, _)
SizeOfItems(items) ==
    IF items = <<>> THEN 0 ELSE 1 + Size(Head(items)) + SizeOfItems(Tail(items))

SizeOfMembers(map, keys) ==
    IF keys = <<>> THEN 0
    ELSE 1 + Size(map[Head(keys)]) + SizeOfMembers(map, Tail(keys))

Size(v) ==
    IF v = Absent THEN 1
    ELSE IF v[1] = "array" THEN 1 + SizeOfItems(v[2])
    ELSE IF v[1] = "object" THEN 1 + SizeOfMembers(v[2], SortedKeys(DOMAIN v[2]))
    ELSE 1

RECURSIVE StackSize(_)
StackSize(stack) ==
    IF stack = <<>> THEN 0
    ELSE Size(Head(stack).old) + Size(Head(stack).new) + StackSize(Tail(stack))

\* What a call has left to do: the routes not examined, the nodes of the
\* values whose comparison is pending, the records not applied; one more
\* while it has not returned
Remaining(r, rs) ==
    (IF r.pc = "running" THEN 1 ELSE 0)
    + (CASE r.op = "match_route" -> Len(rs) - r.idx
         [] r.op = "diff_trees" -> StackSize(r.stack)
         [] r.op = "apply_patch" -> Len(r.patches) - r.idx)

\* What a call has visited, and what it returned
StepsInvariant ==
    /\ run.op = "match_route" =>
          /\ run.idx <= Len(routes)
          /\ run.examined = [i \in 1..run.idx |-> i]
          /\ run.pc = "done" => run.ret \in match_route(routes, run.path)
    /\ (run.op = "diff_trees" /\ run.pc = "done") =>
          run.ret = diff_trees(run.old_json, run.new_json)
    /\ run.op = "apply_patch" =>
          /\ run.idx <= Len(run.patches)
          /\ run.applied = [i \in 1..run.idx |-> i]
          /\ run.pc = "done" =>
                /\ run.applied = [i \in 1..Len(run.patches) |-> i]
                /\ run.ret = apply_patch(run.tree_json, run.patch_json)

\* C26: every call returns.  match_route examines the routes in registry
\* order, none twice; diff_trees has, with every call of diff_values, fewer
\* nodes left to compare; apply_patch applies the records of the change list
\* in order, each once, and has applied all of them when it returns.  What is
\* left to do gets less with every step, and what is returned is what the
\* operation returns as a whole.
C26_OperationsTerminate ==
    /\ []StepsInvariant
    /\ [][Remaining(run', routes') < Remaining(run, routes)]_vars
    /\ <>(run.pc = "done")

\* C26 witness: diff_trees has returned two records for an array holding an
\* array and a shorter array.
C26_Witness ==
    /\ run.pc = "done"
    /\ run.op = "diff_trees"
    /\ FromJsonOrNull(run.old_json) = Array(<<Array(<<Number(1)>>), Number(2)>>)
    /\ FromJsonOrNull(run.new_json) = Array(<<Number(2)>>)
    /\ run.ret = diff_trees(run.old_json, run.new_json)
    /\ Len(run.diffs) = 2

====
